---- MODULE Spec2Model ----
(***************************************************************************)
(* Productivity framework: the metric computation engine.                  *)
(*                                                                         *)
(* Numbers.  The code computes in floating point; the model computes the  *)
(* same expressions exactly.  A rational is a pair <<n, d>> in lowest      *)
(* terms with d > 0; <<0, 0>> stands for pandas' NaN.  A standard          *)
(* deviation and a z-score are square roots of rationals, kept as          *)
(* [sgn, sq]: the real number sgn * sqrt(sq).                              *)
(* Time.  A timestamp is a whole number of seconds since midnight of day   *)
(* 0; a datetime or timedelta of the request handlers is a pair            *)
(* <<seconds, microseconds>> with 0 <= microseconds < 10^6.                *)
(***************************************************************************)
EXTENDS Integers, Sequences, FiniteSets, TLC

VARIABLES store, call, resp

vars == <<store, call, resp>>

-----------------------------------------------------------------------------
(* Bounds of the model *)

MaxEvents == 3

MaxIntervals == 3

MaxLen == 3

-----------------------------------------------------------------------------
(* Program constants *)

\* SQL NULL / Python None in an integer column or an optional timestamp
NULL == -1

\* seconds in a day: timedelta.days counts whole multiples of it
DaySeconds == 86400

\* microseconds in a second: the resolution of datetime and timedelta
Micro == 1000000

-----------------------------------------------------------------------------
(* Exact arithmetic *)

Abs(x) == IF x < 0 THEN -x ELSE x

RECURSIVE GCD(_, _)
GCD(a, b) == IF b = 0 THEN a ELSE GCD(b, a % b)

RNorm(n, d) ==
    LET g == GCD(Abs(n), Abs(d))
        s == IF d < 0 THEN -1 ELSE 1
    IN  IF d = 0 THEN <<0, 0>> ELSE <<s * (n \div g), s * (d \div g)>>

R(n) == <<n, 1>>

RZero == <<0, 1>>

NaN == <<0, 0>>

IsNaN(r) == r[2] = 0

RAdd(a, b) == RNorm(a[1] * b[2] + b[1] * a[2], a[2] * b[2])

RSub(a, b) == RNorm(a[1] * b[2] - b[1] * a[2], a[2] * b[2])

RMul(a, b) == RNorm(a[1] * b[1], a[2] * b[2])

RDiv(a, b) == RNorm(a[1] * b[2], a[2] * b[1])

RNeg(a) == <<-a[1], a[2]>>

RSign(a) == IF a[1] > 0 THEN 1 ELSE IF a[1] < 0 THEN -1 ELSE 0

RLess(a, b) == a[1] * b[2] < b[1] * a[2]

\* the real number sgn * sqrt(sq)
SqrtOf(q) == [sgn |-> RSign(q), sq |-> q]

SRZero == [sgn |-> 0, sq |-> RZero]

SRNaN == [sgn |-> 0, sq |-> NaN]

SRIsNaN(x) == IsNaN(x.sq)

SRNeg(x) == [sgn |-> -x.sgn, sq |-> x.sq]

\* r / x for a rational r and a positive square root x
RDivSR(r, x) == [sgn |-> RSign(r), sq |-> RDiv(RMul(r, r), x.sq)]

\* w * x for a rational w and a square root x
RMulSR(w, x) == [sgn |-> RSign(w) * x.sgn, sq |-> RMul(RMul(w, w), x.sq)]

SRMul(x, y) == [sgn |-> x.sgn * y.sgn, sq |-> RMul(x.sq, y.sq)]

\* a square root equal to a rational
SREqR(x, r) == x.sgn = RSign(r) /\ x.sq = RMul(r, r)

RECURSIVE SeqSum(_)
SeqSum(s) == IF s = <<>> THEN RZero ELSE RAdd(Head(s), SeqSum(Tail(s)))

RECURSIVE SeqSumSq(_, _)
SeqSumSq(s, m) ==
    IF s = <<>> THEN RZero
    ELSE RAdd(RMul(RSub(Head(s), m), RSub(Head(s), m)), SeqSumSq(Tail(s), m))

-----------------------------------------------------------------------------
(* pandas.Series.mean and pandas.Series.std (ddof = 1) *)

series_mean(s) == IF Len(s) = 0 THEN NaN ELSE RDiv(SeqSum(s), R(Len(s)))

\* the standard deviation with ddof = 0 in place of pandas' ddof = 1
series_std_ddof0(s) ==
    IF Len(s) = 0 THEN SRNaN
    ELSE SqrtOf(RDiv(SeqSumSq(s, series_mean(s)), R(Len(s))))

series_std(s) ==
    IF Len(s) <= 1 THEN SRNaN
    ELSE SqrtOf(RDiv(SeqSumSq(s, series_mean(s)), R(Len(s) - 1)))

-----------------------------------------------------------------------------
(* services/metrics_calculator.py: the z-score normalizer *)

z_score_of(mean_value, population_mean, population_std) ==
    IF population_std.sgn > 0
    THEN RDivSR(RSub(mean_value, population_mean), population_std)
    ELSE SRZero

isna_mean(population_mean) ==
    IF IsNaN(population_mean) THEN RZero ELSE population_mean

isna_std(population_std) ==
    IF SRIsNaN(population_std) \/ population_std.sgn = 0 THEN SRZero
    ELSE population_std

empty_result(min_timestamp, max_timestamp) ==
    [mean_value |-> RZero, amount_of_observations |-> 0, z_score |-> SRZero,
     z_score_mean |-> RZero, z_score_std |-> SRZero,
     min_timestamp |-> min_timestamp, max_timestamp |-> max_timestamp]

\* the normalizer without its early return for an empty timeframe sample
normalize_without_empty_guard(timeframe_values, population_values, min_timestamp, max_timestamp) ==
    LET mean_value == isna_mean(series_mean(timeframe_values))
        population_mean == isna_mean(series_mean(population_values))
        population_std == isna_std(series_std(population_values))
    IN  [mean_value |-> mean_value,
         amount_of_observations |-> Len(timeframe_values),
         z_score |-> z_score_of(mean_value, population_mean, population_std),
         z_score_mean |-> population_mean,
         z_score_std |-> population_std,
         min_timestamp |-> min_timestamp,
         max_timestamp |-> max_timestamp]

_calculate_z_score_metrics(timeframe_values, population_values, min_timestamp, max_timestamp) ==
    IF Len(timeframe_values) = 0
    THEN empty_result(min_timestamp, max_timestamp)
    ELSE LET mean_value == series_mean(timeframe_values)
             population_mean == isna_mean(series_mean(population_values))
             population_std == isna_std(series_std(population_values))
         IN  [mean_value |-> mean_value,
              amount_of_observations |-> Len(timeframe_values),
              z_score |-> z_score_of(mean_value, population_mean, population_std),
              z_score_mean |-> population_mean,
              z_score_std |-> population_std,
              min_timestamp |-> min_timestamp,
              max_timestamp |-> max_timestamp]

-----------------------------------------------------------------------------
(* The observations table and its queries *)

Event(id, type, timestamp, value, deployment_id, deployment_failure_id, ai_rework_commit) ==
    [id |-> id, type |-> type, timestamp |-> timestamp, value |-> value,
     deployment_id |-> deployment_id,
     deployment_failure_id |-> deployment_failure_id,
     ai_rework_commit |-> ai_rework_commit]

\* rows in rowid order
RECURSIVE rows(_)
rows(S) ==
    IF S = {} THEN <<>>
    ELSE LET first == CHOOSE e \in S : \A o \in S : e.id <= o.id
         IN  <<first>> \o rows(S \ {first})

\* SELECT ... WHERE type = ?
select_type(db, observation_type) == {e \in db : e.type = observation_type}

\* a range filter that excludes its upper bound
between_half_open(S, start_time, end_time) ==
    {e \in S : start_time <= e.timestamp /\ e.timestamp < end_time}

\* ... AND timestamp BETWEEN ? AND ?
between(S, start_time, end_time) ==
    {e \in S : start_time <= e.timestamp /\ e.timestamp <= end_time}

_get_observations_df(db, observation_type, start_time, end_time) ==
    IF start_time # NULL /\ end_time # NULL
    THEN between(select_type(db, observation_type), start_time, end_time)
    ELSE select_type(db, observation_type)

column_value(df) == [i \in 1..Len(rows(df)) |-> R(rows(df)[i].value)]

MinTs(df) == CHOOSE t \in {e.timestamp : e \in df} : \A e \in df : t <= e.timestamp

MaxTs(df) == CHOOSE t \in {e.timestamp : e \in df} : \A e \in df : e.timestamp <= t

\* timestamp.dt.date, as a day number
date(timestamp) == timestamp \div DaySeconds

RECURSIVE SetSum(_)
SetSum(S) ==
    IF S = {} THEN 0
    ELSE LET e == CHOOSE x \in S : TRUE IN e.value + SetSum(S \ {e})

Outcome(timeframe, population, result, queries) ==
    [timeframe |-> timeframe, population |-> population, result |-> result,
     queries |-> queries]

-----------------------------------------------------------------------------
(* Direct-value calculators *)

\* a direct-value calculator whose population is the rows before the timeframe
direct_value_at_earlier_population(dbs, observation_type, start_time, end_time) ==
    LET timeframe_df == _get_observations_df(dbs[1], observation_type, start_time, end_time)
        population_df == {e \in select_type(dbs[2], observation_type) :
                              e.timestamp < start_time}
    IN  Outcome(column_value(timeframe_df), column_value(population_df),
                _calculate_z_score_metrics(column_value(timeframe_df),
                                           column_value(population_df), NULL, NULL),
                2)

\* dbs[k] is the database as the k-th query of the calculator reads it
direct_value_at(dbs, observation_type, start_time, end_time) ==
    LET timeframe_df == _get_observations_df(dbs[1], observation_type, start_time, end_time)
        population_df == _get_observations_df(dbs[2], observation_type, NULL, NULL)
    IN  Outcome(column_value(timeframe_df), column_value(population_df),
                _calculate_z_score_metrics(column_value(timeframe_df),
                                           column_value(population_df), NULL, NULL),
                2)

direct_value(db, observation_type, start_time, end_time) ==
    direct_value_at(<<db, db>>, observation_type, start_time, end_time)

calculate_satisfaction(db, start_time, end_time) ==
    direct_value(db, "SATISFACTION", start_time, end_time)

calculate_retention(db, start_time, end_time) ==
    direct_value(db, "TEAM_SIZE_CHANGE", start_time, end_time)

calculate_communication_frequency(db, start_time, end_time) ==
    direct_value(db, "COMMUNICATION_EVENT", start_time, end_time)

calculate_perceived_productivity(db, start_time, end_time) ==
    direct_value(db, "PERCEIVED_PRODUCTIVITY", start_time, end_time)

calculate_lack_of_interruptions(db, start_time, end_time) ==
    direct_value(db, "WORK_SESSION", start_time, end_time)

calculate_ai_acceptance_rate(db, start_time, end_time) ==
    direct_value(db, "AI_SUGGESTION_RESULT", start_time, end_time)

-----------------------------------------------------------------------------
(* Daily-bucketed calculators *)

\* daily counts over the requested period, whatever use_actual_data_range says
calculate_daily_counts_requested_period(df, period_start, period_end, use_actual_data_range) ==
    IF df = {} THEN <<<<>>, NULL, NULL>>
    ELSE <<[i \in 1..(date(period_end) - date(period_start) + 1) |->
               R(Cardinality({e \in df : date(e.timestamp) = date(period_start) + i - 1}))],
           IF use_actual_data_range THEN MinTs(df) ELSE NULL,
           IF use_actual_data_range THEN MaxTs(df) ELSE NULL>>

\* one entry per day of the period: 1.0 for a day with rows, whatever their number
calculate_daily_presence(df, period_start, period_end, use_actual_data_range) ==
    IF df = {} THEN <<<<>>, NULL, NULL>>
    ELSE LET first == date(IF use_actual_data_range THEN MinTs(df) ELSE period_start)
             last == date(IF use_actual_data_range THEN MaxTs(df) ELSE period_end)
         IN  <<[i \in 1..(last - first + 1) |->
                   IF \E e \in df : date(e.timestamp) = first + i - 1 THEN R(1) ELSE R(0)],
               IF use_actual_data_range THEN MinTs(df) ELSE NULL,
               IF use_actual_data_range THEN MaxTs(df) ELSE NULL>>

\* one entry per day of the period: the number of rows of that day
calculate_daily_counts(df, period_start, period_end, use_actual_data_range) ==
    IF df = {} THEN <<<<>>, NULL, NULL>>
    ELSE LET period_start_dt == IF use_actual_data_range THEN MinTs(df) ELSE period_start
             period_end_dt == IF use_actual_data_range THEN MaxTs(df) ELSE period_end
             first == date(period_start_dt)
             last == date(period_end_dt)
         IN  <<[i \in 1..(last - first + 1) |->
                   R(Cardinality({e \in df : date(e.timestamp) = first + i - 1}))],
               IF use_actual_data_range THEN MinTs(df) ELSE NULL,
               IF use_actual_data_range THEN MaxTs(df) ELSE NULL>>

\* one entry per day of the period: the sum of the values of that day
calculate_daily_sums(df, period_start, period_end, use_actual_data_range) ==
    IF df = {} THEN <<<<>>, NULL, NULL>>
    ELSE LET period_start_dt == IF use_actual_data_range THEN MinTs(df) ELSE period_start
             period_end_dt == IF use_actual_data_range THEN MaxTs(df) ELSE period_end
             first == date(period_start_dt)
             last == date(period_end_dt)
         IN  <<[i \in 1..(last - first + 1) |->
                   R(SetSum({e \in df : date(e.timestamp) = first + i - 1}))],
               IF use_actual_data_range THEN MinTs(df) ELSE NULL,
               IF use_actual_data_range THEN MaxTs(df) ELSE NULL>>

daily_count_metric(db, observation_type, start_time, end_time) ==
    LET tf == between(select_type(db, observation_type), start_time, end_time)
        pop == select_type(db, observation_type)
        timeframe == calculate_daily_counts(tf, start_time, end_time, TRUE)
        population_values ==
            IF pop # {} THEN calculate_daily_counts(pop, MinTs(pop), MaxTs(pop), FALSE)[1]
            ELSE <<RZero>>
    IN  Outcome(timeframe[1], population_values,
                _calculate_z_score_metrics(timeframe[1], population_values,
                                           timeframe[2], timeframe[3]),
                2)

daily_sum_metric(db, observation_type, start_time, end_time) ==
    LET tf == between(select_type(db, observation_type), start_time, end_time)
        pop == select_type(db, observation_type)
        timeframe == calculate_daily_sums(tf, start_time, end_time, TRUE)
        population_values ==
            IF pop # {} THEN calculate_daily_sums(pop, MinTs(pop), MaxTs(pop), FALSE)[1]
            ELSE <<RZero>>
    IN  Outcome(timeframe[1], population_values,
                _calculate_z_score_metrics(timeframe[1], population_values,
                                           timeframe[2], timeframe[3]),
                2)

calculate_deployment_frequency(db, start_time, end_time) ==
    daily_count_metric(db, "DEPLOYMENT", start_time, end_time)

calculate_number_of_commits(db, start_time, end_time) ==
    daily_count_metric(db, "COMMIT", start_time, end_time)

calculate_lines_of_code(db, start_time, end_time) ==
    daily_sum_metric(db, "LINES_OF_CODE", start_time, end_time)

calculate_lines_of_code_ai(db, start_time, end_time) ==
    daily_sum_metric(db, "LINES_OF_CODE_AI", start_time, end_time)

-----------------------------------------------------------------------------
(* Paired-event calculators *)

ids(df) == {e.id : e \in df}

\* minutes between two timestamps: total_seconds() / 60
minutes(later, earlier) == RNorm(later - earlier, 60)

\* per deployment the number of failures that reference it, not an indicator
calculate_failure_counts(deployments_df, failures_df) ==
    [i \in 1..Len(rows(deployments_df)) |->
        R(Cardinality({f \in failures_df : f.deployment_id = rows(deployments_df)[i].id}))]

\* 1.0 for a deployment that some failure references, else 0.0
calculate_failure_indicators(deployments_df, failures_df) ==
    [i \in 1..Len(rows(deployments_df)) |->
        IF rows(deployments_df)[i].id \in {f.deployment_id : f \in failures_df}
        THEN R(1) ELSE R(0)]

calculate_change_failure_rate_at(dbs, start_time, end_time) ==
    LET deployments_tf == between(select_type(dbs[1], "DEPLOYMENT"), start_time, end_time)
        failures_tf == select_type(dbs[2], "DEPLOYMENT_FAILURE")
        deployments_pop == select_type(dbs[3], "DEPLOYMENT")
        failures_pop == select_type(dbs[4], "DEPLOYMENT_FAILURE")
        timeframe_values == calculate_failure_indicators(deployments_tf, failures_tf)
        population_values == calculate_failure_indicators(deployments_pop, failures_pop)
    IN  Outcome(timeframe_values, population_values,
                _calculate_z_score_metrics(timeframe_values, population_values, NULL, NULL),
                4)

calculate_change_failure_rate(db, start_time, end_time) ==
    calculate_change_failure_rate_at(<<db, db, db, db>>, start_time, end_time)

matching_failures(failures_df, fix) ==
    {x \in failures_df : fix.deployment_failure_id # NULL
                         /\ (x.deployment_failure_id = fix.deployment_failure_id
                             \/ x.id = fix.deployment_failure_id)}

RECURSIVE recovery_times_of(_, _)
recovery_times_of(failures_df, fixes) ==
    IF fixes = <<>> THEN <<>>
    ELSE LET fix == Head(fixes)
             matching == matching_failures(failures_df, fix)
         IN  (IF matching # {}
              THEN <<minutes(fix.timestamp, rows(matching)[1].timestamp)>>
              ELSE <<>>) \o recovery_times_of(failures_df, Tail(fixes))

calculate_recovery_times(failures_df, fixes_df) ==
    recovery_times_of(failures_df, rows(fixes_df))

\* the fixes in the timeframe name a failure: the query for the related
\* failures is made
fixes_name_failures(fixes_tf) ==
    fixes_tf # {} /\ {f.deployment_failure_id : f \in fixes_tf} \ {NULL} # {}

calculate_mean_time_to_recover_at(dbs, start_time, end_time) ==
    LET fixes_tf == between(select_type(dbs[1], "DEPLOYMENT_FAILURE_FIX"), start_time, end_time)
        failure_ids == {f.deployment_failure_id : f \in fixes_tf} \ {NULL}
        related == fixes_name_failures(fixes_tf)
        failures_tf ==
            IF related
            THEN {x \in select_type(dbs[2], "DEPLOYMENT_FAILURE") :
                     x.deployment_failure_id \in failure_ids \/ x.id \in failure_ids}
            ELSE {}
        failures_pop == select_type(dbs[IF related THEN 3 ELSE 2], "DEPLOYMENT_FAILURE")
        fixes_pop == select_type(dbs[IF related THEN 4 ELSE 3], "DEPLOYMENT_FAILURE_FIX")
        timeframe_values == calculate_recovery_times(failures_tf, fixes_tf)
        population_values == calculate_recovery_times(failures_pop, fixes_pop)
    IN  Outcome(timeframe_values, population_values,
                _calculate_z_score_metrics(timeframe_values, population_values, NULL, NULL),
                IF related THEN 4 ELSE 3)

calculate_mean_time_to_recover(db, start_time, end_time) ==
    calculate_mean_time_to_recover_at(<<db, db, db, db>>, start_time, end_time)

RECURSIVE lead_times_of(_, _)
lead_times_of(commits, deployments_df) ==
    IF commits = <<>> THEN <<>>
    ELSE LET commit == Head(commits)
             deployment == {d \in deployments_df : d.id = commit.deployment_id}
         IN  (IF deployment # {}
              THEN <<minutes(MinTs(deployment), commit.timestamp)>>
              ELSE <<>>) \o lead_times_of(Tail(commits), deployments_df)

calculate_lead_times(commits_df, deployments_df) ==
    IF commits_df = {} \/ deployments_df = {} THEN <<>>
    ELSE lead_times_of(rows(commits_df), deployments_df)

\* lead times anchored on the commit: the commits of the timeframe, any deployment
calculate_lead_time_for_changes_by_commit(db, start_time, end_time) ==
    LET commits_tf == between({c \in select_type(db, "COMMIT") : c.deployment_id # NULL},
                              start_time, end_time)
        commits_pop == {c \in select_type(db, "COMMIT") : c.deployment_id # NULL}
        deployments_pop == select_type(db, "DEPLOYMENT")
        timeframe_values == calculate_lead_times(commits_tf, deployments_pop)
        population_values == calculate_lead_times(commits_pop, deployments_pop)
    IN  Outcome(timeframe_values, population_values,
                _calculate_z_score_metrics(timeframe_values, population_values, NULL, NULL),
                3)

calculate_lead_time_for_changes(db, start_time, end_time) ==
    LET deployments_tf == between(select_type(db, "DEPLOYMENT"), start_time, end_time)
        commits_tf ==
            IF deployments_tf # {}
            THEN {c \in select_type(db, "COMMIT") : c.deployment_id \in ids(deployments_tf)}
            ELSE {}
        commits_pop == {c \in select_type(db, "COMMIT") : c.deployment_id # NULL}
        deployments_pop == select_type(db, "DEPLOYMENT")
        timeframe_values == calculate_lead_times(commits_tf, deployments_tf)
        population_values == calculate_lead_times(commits_pop, deployments_pop)
    IN  Outcome(timeframe_values, population_values,
                _calculate_z_score_metrics(timeframe_values, population_values, NULL, NULL),
                IF deployments_tf # {} THEN 4 ELSE 3)

\* ai_rework_commit.fillna(0).astype(float)
calculate_rework_indicators(commits_df) ==
    [i \in 1..Len(rows(commits_df)) |->
        IF rows(commits_df)[i].ai_rework_commit = NULL THEN R(0)
        ELSE R(rows(commits_df)[i].ai_rework_commit)]

calculate_ai_rework_rate(db, start_time, end_time) ==
    LET commits_tf == between(select_type(db, "COMMIT"), start_time, end_time)
        commits_pop == select_type(db, "COMMIT")
        timeframe_values == calculate_rework_indicators(commits_tf)
        population_values == calculate_rework_indicators(commits_pop)
    IN  Outcome(timeframe_values, population_values,
                _calculate_z_score_metrics(timeframe_values, population_values, NULL, NULL),
                2)

-----------------------------------------------------------------------------
(* models/enums.py and the dispatch of calculate_metric *)

MetricType ==
    {"SATISFACTION", "RETENTION", "DEPLOYMENT_FREQUENCY", "CHANGE_FAILURE_RATE",
     "MEAN_TIME_TO_RECOVER", "LINES_OF_CODE", "NUMBER_OF_COMMITS",
     "COMMUNICATION_FREQUENCY", "PERCEIVED_PRODUCTIVITY", "LACK_OF_INTERRUPTIONS",
     "LEAD_TIME_FOR_CHANGES", "AI_ACCEPTANCE_RATE", "AI_CODE_VOLUME", "AI_REWORK_RATE"}

\* what the class MetricType defines besides its members
MetricTypeAttributes == {"description", "get_all_with_descriptions"}

ObservationType ==
    {"SATISFACTION", "TEAM_SIZE_CHANGE", "DEPLOYMENT", "DEPLOYMENT_FAILURE",
     "DEPLOYMENT_FAILURE_FIX", "LINES_OF_CODE", "COMMIT", "COMMUNICATION_EVENT",
     "PERCEIVED_PRODUCTIVITY", "WORK_SESSION", "AI_SUGGESTION_RESULT",
     "LINES_OF_CODE_AI"}

\* the dict literal of calculate_metric: the attribute of MetricType each key
\* names, and the calculator it maps to
calculators ==
    [k \in {"SATISFACTION", "RETENTION", "DEPLOYMENT_FREQUENCY", "CHANGE_FAILURE_RATE",
            "MEAN_TIME_TO_RECOVER", "LINES_OF_CODE", "NUMBER_OF_COMMITS",
            "COMMUNICATION_FREQUENCY", "PERCEIVED_PRODUCTIVITY",
            "LACK_OF_INTERRUPTIONS", "LEAD_TIME_FOR_CHANGES", "AI_ACCEPTANCE_RATE",
            "LINES_OF_CODE_AI", "AI_REWORK_RATE"} |->
        CASE k = "SATISFACTION" -> "calculate_satisfaction"
          [] k = "RETENTION" -> "calculate_retention"
          [] k = "DEPLOYMENT_FREQUENCY" -> "calculate_deployment_frequency"
          [] k = "CHANGE_FAILURE_RATE" -> "calculate_change_failure_rate"
          [] k = "MEAN_TIME_TO_RECOVER" -> "calculate_mean_time_to_recover"
          [] k = "LINES_OF_CODE" -> "calculate_lines_of_code"
          [] k = "NUMBER_OF_COMMITS" -> "calculate_number_of_commits"
          [] k = "COMMUNICATION_FREQUENCY" -> "calculate_communication_frequency"
          [] k = "PERCEIVED_PRODUCTIVITY" -> "calculate_perceived_productivity"
          [] k = "LACK_OF_INTERRUPTIONS" -> "calculate_lack_of_interruptions"
          [] k = "LEAD_TIME_FOR_CHANGES" -> "calculate_lead_time_for_changes"
          [] k = "AI_ACCEPTANCE_RATE" -> "calculate_ai_acceptance_rate"
          [] k = "LINES_OF_CODE_AI" -> "calculate_lines_of_code_ai"
          [] k = "AI_REWORK_RATE" -> "calculate_ai_rework_rate"]

CalculatorFunctions == {calculators[k] : k \in DOMAIN calculators}

\* a call calculator(start_time, end_time, db_name)
Calculator(calculator, db, start_time, end_time) ==
    CASE calculator = "calculate_satisfaction" -> calculate_satisfaction(db, start_time, end_time)
      [] calculator = "calculate_retention" -> calculate_retention(db, start_time, end_time)
      [] calculator = "calculate_deployment_frequency" -> calculate_deployment_frequency(db, start_time, end_time)
      [] calculator = "calculate_change_failure_rate" -> calculate_change_failure_rate(db, start_time, end_time)
      [] calculator = "calculate_mean_time_to_recover" -> calculate_mean_time_to_recover(db, start_time, end_time)
      [] calculator = "calculate_lines_of_code" -> calculate_lines_of_code(db, start_time, end_time)
      [] calculator = "calculate_number_of_commits" -> calculate_number_of_commits(db, start_time, end_time)
      [] calculator = "calculate_communication_frequency" -> calculate_communication_frequency(db, start_time, end_time)
      [] calculator = "calculate_perceived_productivity" -> calculate_perceived_productivity(db, start_time, end_time)
      [] calculator = "calculate_lack_of_interruptions" -> calculate_lack_of_interruptions(db, start_time, end_time)
      [] calculator = "calculate_lead_time_for_changes" -> calculate_lead_time_for_changes(db, start_time, end_time)
      [] calculator = "calculate_ai_acceptance_rate" -> calculate_ai_acceptance_rate(db, start_time, end_time)
      [] calculator = "calculate_lines_of_code_ai" -> calculate_lines_of_code_ai(db, start_time, end_time)
      [] calculator = "calculate_ai_rework_rate" -> calculate_ai_rework_rate(db, start_time, end_time)

\* validation against the keys of the dispatch table in place of the enum
metric_in_dispatch_table(metric_type) == metric_type \in DOMAIN calculators

\* MetricType(metric_type) succeeds
metric_enum_valid(metric_type) == metric_type \in MetricType

\* every key MetricType.<name> of the dict literal resolves
calculators_built == DOMAIN calculators \subseteq MetricType

\* lower-is-better metrics, whose z-score the registry negates
InvertedMetrics == {"MEAN_TIME_TO_RECOVER", "LEAD_TIME_FOR_CHANGES", "AI_REWORK_RATE"}

is_inverted_metric(metric_type) == metric_type \in InvertedMetrics

NoResult == <<>>

Raised(error, calculators_run, queries) ==
    [status |-> error, result |-> NoResult, ran |-> calculators_run, queries |-> queries]

Returned(result, calculators_run, queries) ==
    [status |-> "ok", result |-> result, ran |-> calculators_run, queries |-> queries]

apply_inversion(metric_type, result) ==
    IF is_inverted_metric(metric_type)
    THEN [result EXCEPT !.z_score = SRNeg(@)]
    ELSE result

calculate_metric(db, metric_type, start_time, end_time) ==
    IF ~metric_enum_valid(metric_type) THEN Raised("ValueError", <<>>, 0)
    ELSE IF ~calculators_built THEN Raised("AttributeError", <<>>, 0)
    ELSE IF metric_type \notin DOMAIN calculators THEN Raised("KeyError", <<>>, 0)
    ELSE LET calculator == calculators[metric_type]
             out == Calculator(calculator, db, start_time, end_time)
         IN  IF "is_inverted_metric" \notin MetricTypeAttributes
             THEN Raised("AttributeError", <<calculator>>, out.queries)
             ELSE Returned(apply_inversion(metric_type, out.result),
                           <<calculator>>, out.queries)

-----------------------------------------------------------------------------
(* The engine: ingestion, calculate_metric and the calculators it routes to *)

\* observations the ingestor may insert (the CSV names the id of each)
Catalogue ==
    {Event(1, "SATISFACTION", 36000, 1, NULL, NULL, NULL),
     Event(2, "SATISFACTION", 90000, 3, NULL, NULL, NULL),
     Event(3, "SATISFACTION", 216000, 3, NULL, NULL, NULL),
     Event(4, "TEAM_SIZE_CHANGE", 36000, -1, NULL, NULL, NULL),
     Event(5, "DEPLOYMENT", 36000, 1, NULL, NULL, NULL),
     Event(6, "DEPLOYMENT", 90000, 1, NULL, NULL, NULL),
     Event(7, "DEPLOYMENT_FAILURE", 82800, 1, 5, NULL, NULL),
     Event(8, "DEPLOYMENT_FAILURE_FIX", 90000, 1, NULL, 7, NULL),
     Event(9, "COMMIT", 36000, 1, 6, NULL, 1),
     Event(10, "COMMIT", 216000, 1, NULL, NULL, NULL),
     Event(11, "LINES_OF_CODE", 36000, 2, NULL, NULL, NULL),
     Event(12, "LINES_OF_CODE", 216000, 4, NULL, NULL, NULL),
     Event(13, "LINES_OF_CODE_AI", 36000, 1, NULL, NULL, NULL),
     Event(14, "COMMUNICATION_EVENT", 36000, 2, NULL, NULL, NULL),
     Event(15, "PERCEIVED_PRODUCTIVITY", 90000, 1, NULL, NULL, NULL),
     Event(16, "WORK_SESSION", 90000, 2, NULL, NULL, NULL),
     Event(17, "AI_SUGGESTION_RESULT", 36000, 1, NULL, NULL, NULL),
     Event(18, "AI_SUGGESTION_RESULT", 216000, 0, NULL, NULL, NULL),
     Event(19, "DEPLOYMENT_FAILURE", 216000, 1, 5, NULL, NULL),
     Event(20, "COMMIT", 40000, 1, NULL, NULL, 2)}

\* the windows [start_time, end_time] of the calls
Windows ==
    {<<0, 86399>>, <<0, 259199>>, <<82800, 90000>>, <<86400, 259199>>, <<300000, 400000>>}

\* metric identifiers a caller may pass
MetricIds == MetricType \cup {"LINES_OF_CODE_AI", "BOGUS"}

Idle == [op |-> "idle"]

Init == store = {} /\ call = Idle /\ resp = Idle

\* data_ingestor.ingest_data: one accepted row
Ingest(e) ==
    /\ Cardinality(store) < MaxEvents
    /\ e \notin store
    /\ e.type \in ObservationType
    /\ store' = store \cup {e}
    /\ call' = Idle
    /\ resp' = Idle

\* a call calculate_metric(metric_type, start_time, end_time)
CallCalculateMetric(metric_type, w) ==
    /\ call = Idle
    /\ call' = [op |-> "calculate_metric", metric |-> metric_type,
                start_time |-> w[1], end_time |-> w[2]]
    /\ resp' = calculate_metric(store, metric_type, w[1], w[2])
    /\ UNCHANGED store

\* a call of one calculator function, calculator(start_time, end_time, db_name)
CallCalculator(calculator, w) ==
    /\ call = Idle
    /\ call' = [op |-> "calculator", calculator |-> calculator,
                start_time |-> w[1], end_time |-> w[2]]
    /\ resp' = Calculator(calculator, store, w[1], w[2])
    /\ UNCHANGED store

Next ==
    \/ \E e \in Catalogue : Ingest(e)
    \/ \E m \in MetricIds, w \in Windows : CallCalculateMetric(m, w)
    \/ \E c \in CalculatorFunctions, w \in Windows : CallCalculator(c, w)

Spec == Init /\ [][Next]_vars

-----------------------------------------------------------------------------
(* datetime and timedelta: <<seconds, microseconds>>, 0 <= microseconds < Micro *)

TNorm(s, us) == <<s + (us \div Micro), us % Micro>>

TAdd(a, b) == TNorm(a[1] + b[1], a[2] + b[2])

TSub(a, b) == TNorm(a[1] - b[1], a[2] - b[2])

TLess(a, b) == a[1] < b[1] \/ (a[1] = b[1] /\ a[2] < b[2])

\* timedelta * int
TMul(d, i) == TNorm(d[1] * i, d[2] * i)

\* timedelta / int: the quotient in microseconds, rounded half to even
TDiv(d, n) ==
    LET qs   == d[1] \div n
        rest == (d[1] % n) * Micro + d[2]
        q    == rest \div n
        r    == rest % n
        up   == IF 2 * r > n \/ (2 * r = n /\ q % 2 = 1) THEN 1 ELSE 0
    IN  TNorm(qs, q + up)

\* whole days of a duration, rounded toward zero
timedelta_days_toward_zero(d) ==
    IF d[1] < 0 THEN -((-d[1]) \div DaySeconds) ELSE d[1] \div DaySeconds

\* timedelta.days
timedelta_days(d) == d[1] \div DaySeconds

timedelta_seconds(n) == <<n, 0>>

\* strftime with "%Y-%m-%d %H:%M:%S" or "%Y-%m-%dT%H:%M:%S": the text of a
\* whole second, written as that second; microseconds are not printed
strftime(dt) == dt[1]

\* strptime with "%Y-%m-%d %H:%M:%S" of a text strftime produced
strptime(text) == <<text, 0>>

\* Request timestamp texts: the separator used, the second and the fraction
\* written, or a text that is no date-time
TimestampText(sep, sec, us) == [sep |-> sep, sec |-> sec, us |-> us]

InvalidText == [sep |-> "none", sec |-> 0, us |-> 0]

\* datetime.fromisoformat / datetime.strptime succeed on the text
timestamp_parses(ts) ==
    \/ ts.sep = "T"
    \/ ts.sep = " " /\ ts.us = 0

\* validate_and_normalize_timestamp: <<normalized text, datetime>>
validate_and_normalize_timestamp(ts) ==
    LET dt == <<ts.sec, ts.us>>
    IN  <<strftime(dt), dt>>

Window(interval_number, start_dt, end_dt) ==
    [interval_number |-> interval_number,
     start_time |-> strftime(start_dt),
     end_time |-> strftime(end_dt)]

\* the interval loop of get_metrics without the one-second shift of non-last ends
get_metrics_intervals_unshifted(start_dt, end_dt, intervals) ==
    LET interval_duration == TDiv(TSub(end_dt, start_dt), intervals)
    IN  [n \in 1..intervals |->
            Window(n, TAdd(start_dt, TMul(interval_duration, n - 1)),
                   IF n - 1 = intervals - 1 THEN end_dt
                   ELSE TAdd(start_dt, TMul(interval_duration, n)))]

\* the sub-windows of get_metrics
get_metrics_intervals(start_dt, end_dt, intervals) ==
    LET total_duration == TSub(end_dt, start_dt)
        interval_duration == TDiv(total_duration, intervals)
    IN  [n \in 1..intervals |->
            LET i == n - 1
                interval_start_dt == TAdd(start_dt, TMul(interval_duration, i))
                interval_end_dt ==
                    IF i = intervals - 1 THEN end_dt
                    ELSE TSub(TAdd(start_dt, TMul(interval_duration, i + 1)),
                              timedelta_seconds(1))
            IN  Window(i + 1, interval_start_dt, interval_end_dt)]

\* the sub-windows of calculate_cps_with_intervals, from the normalized texts
cps_intervals(start_time, end_time, intervals) ==
    LET start_dt == strptime(start_time)
        end_dt == strptime(end_time)
        total_duration == TSub(end_dt, start_dt)
        interval_duration == TDiv(total_duration, intervals)
    IN  [n \in 1..intervals |->
            LET i == n - 1
                interval_start_dt == TAdd(start_dt, TMul(interval_duration, i))
                interval_end_dt ==
                    IF i = intervals - 1 THEN end_dt
                    ELSE TSub(TAdd(start_dt, TMul(interval_duration, i + 1)),
                              timedelta_seconds(1))
            IN  Window(i + 1, interval_start_dt, interval_end_dt)]

\* the seconds of the duration plus one, in place of its days plus one
total_seconds_plus_one(start_dt, end_dt) == TSub(end_dt, start_dt)[1] + 1

\* total_duration.days + 1
total_days(start_dt, end_dt) == timedelta_days(TSub(end_dt, start_dt)) + 1

-----------------------------------------------------------------------------
(* services/cps_calculator.py and api/routes.py *)

\* the calls of calculate_metric a handler makes, in loop order: for each
\* sub-window, each requested metric
metric_calls(windows, metric_list) ==
    [j \in 1..(Len(windows) * Len(metric_list)) |->
        LET w == windows[((j - 1) \div Len(metric_list)) + 1]
        IN  [window |-> ((j - 1) \div Len(metric_list)) + 1,
             metric |-> metric_list[((j - 1) % Len(metric_list)) + 1],
             start_time |-> w.start_time,
             end_time |-> w.end_time]]

\* the outcomes of the calls made, up to and including the first that raises
RECURSIVE run_calls(_, _, _)
RECURSIVE after_call(_, _, _, _)
after_call(db, calls, done, out) ==
    IF out.status # "ok" THEN Append(done, out)
    ELSE run_calls(db, Tail(calls), Append(done, out))

run_calls(db, calls, done) ==
    IF calls = <<>> THEN done
    ELSE after_call(db, calls, done,
                    calculate_metric(db, Head(calls).metric, Head(calls).start_time,
                                     Head(calls).end_time))

RECURSIVE queries_of(_)
queries_of(outs) ==
    IF outs = <<>> THEN 0 ELSE Head(outs).queries + queries_of(Tail(outs))

raised(outs) == outs # <<>> /\ outs[Len(outs)].status # "ok"

\* the float sum 0.0 + t1 + t2 + ...: its non-zero terms in order of addition
RECURSIVE float_sum(_)
float_sum(terms) ==
    IF terms = <<>> THEN <<>>
    ELSE IF Head(terms) = SRZero THEN float_sum(Tail(terms))
    ELSE <<Head(terms)>> \o float_sum(Tail(terms))

ServiceRaised(error, outs) ==
    [status |-> error, value |-> <<>>, queries |-> queries_of(outs), calls |-> Len(outs)]

ServiceReturned(value, outs) ==
    [status |-> "ok", value |-> value, queries |-> queries_of(outs), calls |-> Len(outs)]

cps_metric_result(metric_config, metric_result) ==
    [metric_type |-> metric_config.metric,
     weight |-> metric_config.weight,
     z_score |-> metric_result.z_score,
     z_score_weighted |-> RMulSR(metric_config.weight, metric_result.z_score),
     mean_value |-> metric_result.mean_value,
     amount_of_observations |-> metric_result.amount_of_observations,
     z_score_mean |-> metric_result.z_score_mean,
     z_score_std |-> metric_result.z_score_std,
     min_timestamp |-> metric_result.min_timestamp,
     max_timestamp |-> metric_result.max_timestamp]

metric_names(metrics) == [m \in 1..Len(metrics) |-> metrics[m].metric]

\* what calculate_cps returns or raises, given the outcomes of its calls
cps_outcome(start_time, end_time, metrics, outs) ==
        IF raised(outs) THEN ServiceRaised(outs[Len(outs)].status, outs)
        ELSE LET metric_results ==
                     [m \in 1..Len(metrics) |->
                         [result |-> outs[m].result,
                          metric_type |-> metrics[m].metric,
                          weight |-> metrics[m].weight,
                          z_score_weighted |->
                              RMulSR(metrics[m].weight, outs[m].result.z_score),
                          start_time |-> start_time,
                          end_time |-> end_time]]
             IN  ServiceReturned(
                     [cps |-> float_sum([m \in 1..Len(metrics) |->
                                            metric_results[m].z_score_weighted]),
                      metrics |-> metric_results],
                     outs)

calculate_cps(db, start_time, end_time, metrics) ==
    cps_outcome(start_time, end_time, metrics,
                run_calls(db,
                          metric_calls(<<[start_time |-> start_time, end_time |-> end_time]>>,
                                       metric_names(metrics)),
                          <<>>))

\* what calculate_cps_with_intervals returns or raises, given its sub-windows
\* and the outcomes of its calls
cps_intervals_outcome(windows, intervals, metrics, outs) ==
    LET k == Len(metrics)
    IN  IF raised(outs) THEN ServiceRaised(outs[Len(outs)].status, outs)
        ELSE ServiceReturned(
                 [i \in 1..intervals |->
                     LET metric_results ==
                             [m \in 1..k |->
                                 cps_metric_result(metrics[m], outs[(i - 1) * k + m].result)]
                     IN  [interval_number |-> windows[i].interval_number,
                          start_time |-> windows[i].start_time,
                          end_time |-> windows[i].end_time,
                          cps |-> float_sum([m \in 1..k |->
                                               metric_results[m].z_score_weighted]),
                          metrics |-> metric_results]],
                 outs)

cps_intervals_run(db, windows, intervals, metrics) ==
    cps_intervals_outcome(windows, intervals, metrics,
                          run_calls(db, metric_calls(windows, metric_names(metrics)), <<>>))

calculate_cps_with_intervals(db, start_time, end_time, intervals, metrics) ==
    cps_intervals_run(db, cps_intervals(start_time, end_time, intervals), intervals, metrics)

\* the mean_value of the first entry for metric_type in each interval
metric_values(interval_results, metric_type) ==
    [i \in 1..Len(interval_results) |->
        LET metrics == interval_results[i].metrics
            first == CHOOSE m \in 1..Len(metrics) :
                        /\ metrics[m].metric_type = metric_type
                        /\ \A l \in 1..(m - 1) : metrics[l].metric_type # metric_type
        IN  metrics[first].mean_value]

\* the entries of values at the positions where neither series is NaN
RECURSIVE masked(_, _, _)
masked(values, values_1, values_2) ==
    IF values = <<>> THEN <<>>
    ELSE IF IsNaN(Head(values_1)) \/ IsNaN(Head(values_2))
    THEN masked(Tail(values), Tail(values_1), Tail(values_2))
    ELSE <<Head(values)>> \o masked(Tail(values), Tail(values_1), Tail(values_2))

\* np.std(values) == 0
zero_std(values) == \A i, j \in 1..Len(values) : values[i] = values[j]

RECURSIVE SeqSumProd(_, _, _, _)
SeqSumProd(x, mx, y, my) ==
    IF x = <<>> THEN RZero
    ELSE RAdd(RMul(RSub(Head(x), mx), RSub(Head(y), my)),
              SeqSumProd(Tail(x), mx, Tail(y), my))

\* the r of stats.pearsonr
pearsonr(x, y) ==
    LET mx == series_mean(x)
        my == series_mean(y)
        cov == SeqSumProd(x, mx, y, my)
    IN  [sgn |-> RSign(cov),
         sq |-> RDiv(RMul(cov, cov), RMul(SeqSumSq(x, mx), SeqSumSq(y, my)))]

\* str.capitalize() of the strength names
capitalize(text) ==
    CASE text = "negligible" -> "Negligible"
      [] text = "weak" -> "Weak"
      [] text = "moderate" -> "Moderate"
      [] text = "strong" -> "Strong"
      [] text = "very strong" -> "Very strong"

\* the strength bands with their upper bounds included
strength_upper_inclusive(abs_r) ==
    IF ~RLess(<<1, 10>>, abs_r) THEN "negligible"
    ELSE IF ~RLess(<<3, 10>>, abs_r) THEN "weak"
    ELSE IF ~RLess(<<1, 2>>, abs_r) THEN "moderate"
    ELSE IF ~RLess(<<7, 10>>, abs_r) THEN "strong"
    ELSE "very strong"

strength(abs_r) ==
    IF RLess(abs_r, <<1, 10>>) THEN "negligible"
    ELSE IF RLess(abs_r, <<3, 10>>) THEN "weak"
    ELSE IF RLess(abs_r, <<1, 2>>) THEN "moderate"
    ELSE IF RLess(abs_r, <<7, 10>>) THEN "strong"
    ELSE "very strong"

direction(r) ==
    IF RLess(RZero, r) THEN "positive"
    ELSE IF RLess(r, RZero) THEN "negative"
    ELSE "no"

significance(p_value) ==
    IF RLess(p_value, <<1, 100>>) THEN "highly significant (p < 0.01)"
    ELSE IF RLess(p_value, <<1, 20>>) THEN "significant (p < 0.05)"
    ELSE IF RLess(p_value, <<1, 10>>) THEN "marginally significant (p < 0.1)"
    ELSE "not statistically significant"

interpret_correlation(r, p_value) ==
    LET abs_r == IF RLess(r, RZero) THEN RNeg(r) ELSE r
    IN  capitalize(strength(abs_r)) \o " " \o direction(r) \o " correlation, "
            \o significance(p_value)

\* the result for one pair with the zero-variance check made before the
\* sample-size check
correlation_zero_variance_first(metric_1, metric_2, values_1, values_2) ==
    LET valid_values_1 == masked(values_1, values_1, values_2)
        valid_values_2 == masked(values_2, values_1, values_2)
        sample_size == Len(valid_values_1)
        r == pearsonr(valid_values_1, valid_values_2)
    IN  IF zero_std(valid_values_1) \/ zero_std(valid_values_2)
        THEN [metric_1 |-> metric_1, metric_2 |-> metric_2,
              pearson_coefficient |-> SRZero, p_value |-> R(1),
              sample_size |-> sample_size,
              interpretation |->
                  "Cannot compute correlation: one or both metrics have zero variance"]
        ELSE IF sample_size < 3
        THEN [metric_1 |-> metric_1, metric_2 |-> metric_2,
              pearson_coefficient |-> SRZero, p_value |-> R(1),
              sample_size |-> sample_size,
              interpretation |->
                  "Insufficient data (need at least 3 intervals with observations)"]
        ELSE [metric_1 |-> metric_1, metric_2 |-> metric_2,
              pearson_coefficient |-> [round4 |-> r],
              p_value |-> [round4 |-> [p_of |-> r, n |-> sample_size]],
              sample_size |-> sample_size,
              interpretation |-> [interpret |-> r, n |-> sample_size]]

\* the result for one pair; round(r, 4), the p-value and its rounding, and the
\* interpretation text are kept as terms over r and the sample size
correlation_of(metric_1, metric_2, values_1, values_2) ==
    LET valid_values_1 == masked(values_1, values_1, values_2)
        valid_values_2 == masked(values_2, values_1, values_2)
        sample_size == Len(valid_values_1)
        r == pearsonr(valid_values_1, valid_values_2)
    IN  IF sample_size < 3
        THEN [metric_1 |-> metric_1, metric_2 |-> metric_2,
              pearson_coefficient |-> SRZero, p_value |-> R(1),
              sample_size |-> sample_size,
              interpretation |->
                  "Insufficient data (need at least 3 intervals with observations)"]
        ELSE IF zero_std(valid_values_1) \/ zero_std(valid_values_2)
        THEN [metric_1 |-> metric_1, metric_2 |-> metric_2,
              pearson_coefficient |-> SRZero, p_value |-> R(1),
              sample_size |-> sample_size,
              interpretation |->
                  "Cannot compute correlation: one or both metrics have zero variance"]
        ELSE [metric_1 |-> metric_1, metric_2 |-> metric_2,
              pearson_coefficient |-> [round4 |-> r],
              p_value |-> [round4 |-> [p_of |-> r, n |-> sample_size]],
              sample_size |-> sample_size,
              interpretation |-> [interpret |-> r, n |-> sample_size]]

\* pairs of positions that also pair a position with itself
RECURSIVE pairs_with_self(_, _, _)
pairs_with_self(i, j, n) ==
    IF i > n THEN <<>>
    ELSE IF j > n THEN pairs_with_self(i + 1, i + 1, n)
    ELSE <<<<i, j>>>> \o pairs_with_self(i, j + 1, n)

\* the pairs (i, j), i < j, of positions of the metric list, in loop order
RECURSIVE pairs_from(_, _, _)
pairs_from(i, j, n) ==
    IF i >= n THEN <<>>
    ELSE IF j > n THEN pairs_from(i + 1, i + 2, n)
    ELSE <<<<i, j>>>> \o pairs_from(i, j + 1, n)

calculate_correlations(interval_results, metric_type_list) ==
    LET pairs == pairs_from(1, 2, Len(metric_type_list))
    IN  [k \in 1..Len(pairs) |->
            LET metric_1 == metric_type_list[pairs[k][1]]
                metric_2 == metric_type_list[pairs[k][2]]
            IN  correlation_of(metric_1, metric_2,
                               metric_values(interval_results, metric_1),
                               metric_values(interval_results, metric_2))]

\* the one detail of an HTTPException a handler raises
detail(text) == {<<text, 0>>}

\* HTTP responses; a diagnostic is <<text, position in the request's metrics>>,
\* position 0 for a diagnostic about the request as a whole
HttpError(status, diagnostics, outs) ==
    [status |-> status, diagnostics |-> diagnostics, intervals |-> <<>>,
     correlations |-> NULL, queries |-> queries_of(outs), calls |-> Len(outs)]

HttpOk(intervals, correlations, queries, calls) ==
    [status |-> 200, diagnostics |-> {}, intervals |-> intervals,
     correlations |-> correlations, queries |-> queries, calls |-> calls]

\* except ValueError -> 400; except Exception -> 500
status_of(error) == IF error = "ValueError" THEN 400 ELSE 500

\* a validation that finds every identifier valid
no_invalid_types(metric_type_list) == <<>>

RECURSIVE invalid_types(_)
invalid_types(metric_type_list) ==
    IF metric_type_list = <<>> THEN <<>>
    ELSE IF Head(metric_type_list) \notin MetricType
    THEN <<Head(metric_type_list)>> \o invalid_types(Tail(metric_type_list))
    ELSE invalid_types(Tail(metric_type_list))

metric_result_with_type(result, metric_type) ==
    [metric_type |-> metric_type,
     mean_value |-> result.mean_value,
     amount_of_observations |-> result.amount_of_observations,
     z_score |-> result.z_score,
     z_score_mean |-> result.z_score_mean,
     z_score_std |-> result.z_score_std,
     min_timestamp |-> result.min_timestamp,
     max_timestamp |-> result.max_timestamp]

\* the response of get_metrics, given its sub-windows and the outcomes of
\* its calls of calculate_metric
get_metrics_response(windows, metric_type_list, intervals, outs) ==
    LET k == Len(metric_type_list)
        interval_results ==
            [i \in 1..intervals |->
                [interval_number |-> windows[i].interval_number,
                 start_time |-> windows[i].start_time,
                 end_time |-> windows[i].end_time,
                 metrics |-> [m \in 1..k |->
                     metric_result_with_type(outs[(i - 1) * k + m].result,
                                             metric_type_list[m])]]]
    IN  IF raised(outs)
        THEN HttpError(status_of(outs[Len(outs)].status), detail(outs[Len(outs)].status), outs)
        ELSE HttpOk(interval_results,
                    IF k > 1 /\ intervals > 1
                    THEN calculate_correlations(interval_results, metric_type_list)
                    ELSE NULL,
                    queries_of(outs), Len(outs))

get_metrics_run(db, windows, metric_type_list, intervals) ==
    get_metrics_response(windows, metric_type_list, intervals,
                         run_calls(db, metric_calls(windows, metric_type_list), <<>>))

get_metrics(db, metric_type_list, start_time, end_time, intervals) ==
    IF ~(intervals > 0) THEN HttpError(422, detail("intervals: greater_than"), <<>>)
    ELSE IF invalid_types(metric_type_list) # <<>>
    THEN HttpError(400, detail("Invalid metric type(s)"), <<>>)
    ELSE IF ~timestamp_parses(start_time) \/ ~timestamp_parses(end_time)
    THEN HttpError(400, detail("Invalid timestamp format"), <<>>)
    ELSE LET start_dt == validate_and_normalize_timestamp(start_time)[2]
             end_dt == validate_and_normalize_timestamp(end_time)[2]
         IN  IF intervals > total_days(start_dt, end_dt)
             THEN HttpError(400, detail("Intervals cannot be larger than the number of days"), <<>>)
             ELSE get_metrics_run(db, get_metrics_intervals(start_dt, end_dt, intervals),
                                  metric_type_list, intervals)

\* a weight in [0, 1) only
weight_below_one(weight) == ~RLess(weight, R(0)) /\ RLess(weight, R(1))

\* Field(..., ge=0.0, le=1.0)
weight_valid(weight) == ~RLess(weight, R(0)) /\ ~RLess(R(1), weight)

\* the errors pydantic reports for a CPSIntervalRequest body
request_errors(request) ==
    (IF request.intervals > 0 THEN {} ELSE {<<"intervals: greater_than", 0>>})
    \cup (IF Len(request.metrics) >= 1 THEN {} ELSE {<<"metrics: too_short", 0>>})
    \cup {<<"weight: greater_than_equal", m>> : m \in
             {l \in 1..Len(request.metrics) :
                 ~weight_valid(request.metrics[l].weight)
                 /\ RLess(request.metrics[l].weight, R(0))}}
    \cup {<<"weight: less_than_equal", m>> : m \in
             {l \in 1..Len(request.metrics) :
                 ~weight_valid(request.metrics[l].weight)
                 /\ ~RLess(request.metrics[l].weight, R(0))}}

\* the response of the handler, given what calculate_cps_with_intervals did
cps_response(out) ==
    IF out.status # "ok"
    THEN [HttpError(status_of(out.status), detail(out.status), <<>>)
             EXCEPT !.queries = out.queries, !.calls = out.calls]
    ELSE HttpOk(out.value, NULL, out.queries, out.calls)

calculate_composite_productivity_score(db, request) ==
    IF request_errors(request) # {} THEN HttpError(422, request_errors(request), <<>>)
    ELSE IF ~timestamp_parses(request.start_time) \/ ~timestamp_parses(request.end_time)
    THEN HttpError(400, detail("Invalid timestamp format"), <<>>)
    ELSE LET start == validate_and_normalize_timestamp(request.start_time)
             end == validate_and_normalize_timestamp(request.end_time)
             normalized_start == start[1]
             normalized_end == end[1]
             start_dt == start[2]
             end_dt == end[2]
         IN  IF TLess(end_dt, start_dt)
             THEN HttpError(400, detail("end_time cannot be before start_time"), <<>>)
             ELSE IF request.intervals > total_days(start_dt, end_dt)
             THEN HttpError(400, detail("Intervals cannot be larger than the number of days"), <<>>)
             ELSE IF invalid_types(metric_names(request.metrics)) # <<>>
             THEN HttpError(400, detail("Invalid metric type"), <<>>)
             ELSE cps_response(calculate_cps_with_intervals(db, normalized_start,
                                   normalized_end, request.intervals, request.metrics))

-----------------------------------------------------------------------------
(* The normalizer applied to samples *)

SampleValues == {0, 1, 3}

RECURSIVE SeqsUpTo(_, _)
SeqsUpTo(S, n) ==
    IF n = 0 THEN {<<>>}
    ELSE SeqsUpTo(S, n - 1) \cup
         {Append(q, R(x)) : q \in {t \in SeqsUpTo(S, n - 1) : Len(t) = n - 1}, x \in S}

ExampleTimeframe == <<R(5)>>

ExamplePopulation == <<R(1), R(2), R(3), R(4), R(5)>>

InitNorm ==
    /\ store = {}
    /\ \/ \E tf \in SeqsUpTo(SampleValues, MaxLen), pop \in SeqsUpTo(SampleValues, MaxLen) :
             call = [op |-> "samples", timeframe_values |-> tf, population_values |-> pop]
       \/ call = [op |-> "samples", timeframe_values |-> ExampleTimeframe,
                  population_values |-> ExamplePopulation]
    /\ resp = Idle

Normalize ==
    /\ call.op = "samples"
    /\ call' = [call EXCEPT !.op = "normalizer"]
    /\ resp' = _calculate_z_score_metrics(call.timeframe_values, call.population_values,
                                          NULL, NULL)
    /\ UNCHANGED store

NextNorm == Normalize

SpecNorm == InitNorm /\ [][NextNorm]_vars

-----------------------------------------------------------------------------
(* The two partitioners applied to requests *)

PartitionStarts == {0, 1, 82800}

PartitionEnds ==
    {0, 1, 86399, 86400, 86401, 172800, 172801, 259199, 259201, 345600, 432000}

Fractions == {0, 500000, 999999}

PartitionTexts(seconds) ==
    {TimestampText(sep, sec, us) : sep \in {"T", " "}, sec \in seconds, us \in Fractions}

\* the checks of get_metrics that precede its interval loop
get_metrics_accepts(start_time, end_time, intervals) ==
    /\ timestamp_parses(start_time)
    /\ timestamp_parses(end_time)
    /\ intervals <= total_days(validate_and_normalize_timestamp(start_time)[2],
                               validate_and_normalize_timestamp(end_time)[2])

\* the checks of calculate_composite_productivity_score that precede the call
\* of calculate_cps_with_intervals
cps_accepts(start_time, end_time, intervals) ==
    /\ timestamp_parses(start_time)
    /\ timestamp_parses(end_time)
    /\ ~TLess(validate_and_normalize_timestamp(end_time)[2],
              validate_and_normalize_timestamp(start_time)[2])
    /\ intervals <= total_days(validate_and_normalize_timestamp(start_time)[2],
                               validate_and_normalize_timestamp(end_time)[2])

Partitioned(accepted, windows) == [accepted |-> accepted, windows |-> windows]

InitPartition ==
    /\ store = {}
    /\ \E start_time \in PartitionTexts(PartitionStarts),
          end_time \in PartitionTexts(PartitionEnds),
          intervals \in 1..MaxIntervals :
            call = [op |-> "request", start_time |-> start_time,
                    end_time |-> end_time, intervals |-> intervals]
    /\ resp = Idle

PartitionMetrics ==
    /\ call.op = "request"
    /\ call' = [call EXCEPT !.op = "get_metrics"]
    /\ resp' = IF get_metrics_accepts(call.start_time, call.end_time, call.intervals)
               THEN Partitioned(TRUE,
                        get_metrics_intervals(
                            validate_and_normalize_timestamp(call.start_time)[2],
                            validate_and_normalize_timestamp(call.end_time)[2],
                            call.intervals))
               ELSE Partitioned(FALSE, <<>>)
    /\ UNCHANGED store

PartitionCps ==
    /\ call.op = "request"
    /\ call' = [call EXCEPT !.op = "calculate_cps_with_intervals"]
    /\ resp' = IF cps_accepts(call.start_time, call.end_time, call.intervals)
               THEN Partitioned(TRUE,
                        cps_intervals(
                            validate_and_normalize_timestamp(call.start_time)[1],
                            validate_and_normalize_timestamp(call.end_time)[1],
                            call.intervals))
               ELSE Partitioned(FALSE, <<>>)
    /\ UNCHANGED store

NextPartition == PartitionMetrics \/ PartitionCps

SpecPartition == InitPartition /\ [][NextPartition]_vars

-----------------------------------------------------------------------------
(* Requests to the API over a stored event set *)

ApiStores ==
    {{}, {e \in Catalogue : e.type = "SATISFACTION"}, {e \in Catalogue : e.id \in {7, 8}}}

ApiTimes ==
    {TimestampText("T", 0, 0), TimestampText("T", 82800, 0), TimestampText(" ", 90000, 0),
     TimestampText("T", 172800, 0), TimestampText("T", 259199, 0),
     TimestampText("T", 345600, 500000), TimestampText("T", 0, 500000),
     TimestampText(" ", 0, 500000), InvalidText}

MetricLists ==
    {<<"SATISFACTION">>, <<"SATISFACTION", "MEAN_TIME_TO_RECOVER">>, <<"AI_CODE_VOLUME">>,
     <<"BOGUS">>, <<"LINES_OF_CODE_AI", "SATISFACTION">>}

Weighted(metric, weight) == [metric |-> metric, weight |-> weight]

WeightedLists ==
    {<<>>,
     <<Weighted("SATISFACTION", R(1))>>,
     <<Weighted("SATISFACTION", R(0))>>,
     <<Weighted("SATISFACTION", <<3, 2>>)>>,
     <<Weighted("SATISFACTION", <<-1, 10>>)>>,
     <<Weighted("SATISFACTION", <<1, 2>>), Weighted("MEAN_TIME_TO_RECOVER", R(1))>>,
     <<Weighted("SATISFACTION", R(1)), Weighted("MEAN_TIME_TO_RECOVER", <<3, 2>>)>>,
     <<Weighted("SATISFACTION", <<3, 2>>), Weighted("MEAN_TIME_TO_RECOVER", <<-1, 10>>)>>,
     <<Weighted("BOGUS", R(1))>>,
     <<Weighted("BOGUS", <<3, 2>>)>>}

InitApi ==
    /\ store \in ApiStores
    /\ call = Idle
    /\ resp = Idle

GetMetrics ==
    \E metric_type_list \in MetricLists, start_time \in ApiTimes, end_time \in ApiTimes,
       intervals \in 0..MaxIntervals :
        /\ call = Idle
        /\ call' = [op |-> "get_metrics", metrics |-> metric_type_list,
                    start_time |-> start_time, end_time |-> end_time,
                    intervals |-> intervals]
        /\ resp' = get_metrics(store, metric_type_list, start_time, end_time, intervals)
        /\ UNCHANGED store

PostCps ==
    \E metrics \in WeightedLists, start_time \in ApiTimes, end_time \in ApiTimes,
       intervals \in 0..MaxIntervals :
        /\ call = Idle
        /\ call' = [op |-> "cps", metrics |-> metrics,
                    start_time |-> start_time, end_time |-> end_time,
                    intervals |-> intervals]
        /\ resp' = calculate_composite_productivity_score(store, call')
        /\ UNCHANGED store

CallCalculateCps ==
    \E metrics \in WeightedLists, w \in Windows :
        /\ call = Idle
        /\ call' = [op |-> "calculate_cps", metrics |-> metrics,
                    start_time |-> w[1], end_time |-> w[2], intervals |-> 1]
        /\ resp' = calculate_cps(store, w[1], w[2], metrics)
        /\ UNCHANGED store

NextApi == GetMetrics \/ PostCps \/ CallCalculateCps

SpecApi == InitApi /\ [][NextApi]_vars

-----------------------------------------------------------------------------
(* calculate_correlations applied to interval results *)

\* the samples a metric's calculator hands to the normalizer in one interval;
\* <<NaN>> is a sample without a number, whose mean is NaN
CorrSamples(metric_type, metric_type_list) ==
    IF metric_type = "SATISFACTION" /\ Len(metric_type_list) < 3
    THEN {<<>>, <<R(0)>>, <<R(1)>>, <<R(3)>>, <<NaN>>}
    ELSE {<<R(1)>>, <<R(3)>>}

CorrMetricLists ==
    {<<"SATISFACTION", "MEAN_TIME_TO_RECOVER">>,
     <<"MEAN_TIME_TO_RECOVER", "SATISFACTION">>,
     <<"SATISFACTION", "SATISFACTION">>,
     <<"SATISFACTION", "MEAN_TIME_TO_RECOVER", "DEPLOYMENT_FREQUENCY">>,
     <<"SATISFACTION">>}

Names(metric_type_list) == {metric_type_list[m] : m \in 1..Len(metric_type_list)}

\* one sample per requested metric
CorrIntervalSamples(metric_type_list) ==
    {f \in [Names(metric_type_list) ->
                UNION {CorrSamples(t, metric_type_list) : t \in Names(metric_type_list)}] :
        \A t \in Names(metric_type_list) : f[t] \in CorrSamples(t, metric_type_list)}

RECURSIVE SeqsOfLen(_, _)
SeqsOfLen(S, n) ==
    IF n = 0 THEN {<<>>}
    ELSE {Append(q, x) : q \in SeqsOfLen(S, n - 1), x \in S}

\* the entry of interval_results for one interval, as the loop of get_metrics
\* builds it from the calculators' results
interval_result(i, samples, metric_type_list) ==
    [interval_number |-> i,
     metrics |-> [m \in 1..Len(metric_type_list) |->
                    metric_result_with_type(
                        _calculate_z_score_metrics(samples[metric_type_list[m]],
                                                   ExamplePopulation, NULL, NULL),
                        metric_type_list[m])]]

InitCorr ==
    /\ store = {}
    /\ \E metric_type_list \in CorrMetricLists, n \in 1..MaxIntervals :
         \E samples \in SeqsOfLen(CorrIntervalSamples(metric_type_list), n) :
            call = [op |-> "interval_results", metric_type_list |-> metric_type_list,
                    samples |-> samples,
                    interval_results |->
                        [i \in 1..n |-> interval_result(i, samples[i], metric_type_list)]]
    /\ resp = Idle

Correlate ==
    /\ call.op = "interval_results"
    /\ call' = [call EXCEPT !.op = "calculate_correlations"]
    /\ resp' = calculate_correlations(call.interval_results, call.metric_type_list)
    /\ UNCHANGED store

NextCorr == Correlate

SpecCorr == InitCorr /\ [][NextCorr]_vars

-----------------------------------------------------------------------------
(* Sequences of requests over a growing event store *)

\* the database after a reader that deletes the rows it has read
db_after_consuming_read(db) == {}

\* the database after _get_observations_df has opened a connection, read its
\* rows and closed the connection
db_after_read(db) == db

FrameCatalogue == {e \in Catalogue : e.id \in {1, 2, 3, 5, 6, 7}}

FrameWindows == {<<0, 86399>>, <<0, 259199>>}

FrameRequests ==
    {[op |-> "calculate_metric", metric |-> m, start_time |-> w[1], end_time |-> w[2]] :
        m \in {"SATISFACTION", "BOGUS"}, w \in FrameWindows}
    \cup
    {[op |-> "calculator", calculator |-> c, start_time |-> w[1], end_time |-> w[2]] :
        c \in {"calculate_satisfaction", "calculate_change_failure_rate",
               "calculate_deployment_frequency"},
        w \in FrameWindows}
    \cup
    {[op |-> "get_metrics", metrics |-> <<"SATISFACTION">>,
      start_time |-> TimestampText("T", 0, 0), end_time |-> TimestampText("T", 172800, 0),
      intervals |-> 2],
     [op |-> "cps", metrics |-> <<Weighted("SATISFACTION", R(1))>>,
      start_time |-> TimestampText("T", 0, 0), end_time |-> TimestampText("T", 172800, 0),
      intervals |-> 1]}

\* the answer to one request
Respond(db, request) ==
    CASE request.op = "calculate_metric" ->
             calculate_metric(db, request.metric, request.start_time, request.end_time)
      [] request.op = "calculator" ->
             Calculator(request.calculator, db, request.start_time, request.end_time)
      [] request.op = "get_metrics" ->
             get_metrics(db, request.metrics, request.start_time, request.end_time,
                         request.intervals)
      [] request.op = "cps" ->
             calculate_composite_productivity_score(db, request)

MaxRepeats == 2

InitFrame == store = {} /\ call = Idle /\ resp = Idle

\* a request; resp keeps the answers to the consecutive identical requests
\* made since the store last changed
Request(request) ==
    /\ ~(call = request /\ Len(resp) >= MaxRepeats)
    /\ call' = request
    /\ resp' = IF call = request THEN Append(resp, Respond(store, request))
               ELSE <<Respond(store, request)>>
    /\ store' = db_after_read(store)

NextFrame ==
    \/ \E e \in FrameCatalogue : Ingest(e)
    \/ \E request \in FrameRequests : Request(request)

SpecFrame == InitFrame /\ [][NextFrame]_vars

-----------------------------------------------------------------------------
(* One calculator's queries interleaved with appends to the store *)

SnapCatalogue == {e \in Catalogue : e.id \in {1, 2, 5, 7, 8}}

SnapCalculators ==
    {"calculate_satisfaction", "calculate_change_failure_rate",
     "calculate_mean_time_to_recover"}

SnapWindows == {<<0, 86399>>, <<0, 259199>>}

\* the calculator's result when its k-th query reads dbs[k]
CalculatorAt(calculator, dbs, start_time, end_time) ==
    CASE calculator = "calculate_satisfaction" ->
             direct_value_at(dbs, "SATISFACTION", start_time, end_time)
      [] calculator = "calculate_change_failure_rate" ->
             calculate_change_failure_rate_at(dbs, start_time, end_time)
      [] calculator = "calculate_mean_time_to_recover" ->
             calculate_mean_time_to_recover_at(dbs, start_time, end_time)

\* the number of queries the calculator makes, given what its first queries read
queries_to_make(calculator, snapshots, start_time, end_time) ==
    CASE calculator = "calculate_satisfaction" -> 2
      [] calculator = "calculate_change_failure_rate" -> 4
      [] calculator = "calculate_mean_time_to_recover" ->
             IF /\ snapshots # <<>>
                /\ ~fixes_name_failures(between(select_type(snapshots[1],
                                                             "DEPLOYMENT_FAILURE_FIX"),
                                                 start_time, end_time))
             THEN 3 ELSE 4

Computing == call.op = "computing"

InitSnap == store = {} /\ call = Idle /\ resp = Idle

\* a committed insert of the ingestor; during collects the store contents that
\* exist while a calculator is running
AppendEvent(e) ==
    /\ call.op \in {"idle", "computing"}
    /\ Cardinality(store) < MaxEvents
    /\ e \notin store
    /\ store' = store \cup {e}
    /\ call' = IF Computing THEN [call EXCEPT !.during = @ \cup {store'}] ELSE call
    /\ UNCHANGED resp

\* the calculator is called
Begin(calculator, w) ==
    /\ call = Idle
    /\ call' = [op |-> "computing", calculator |-> calculator,
                start_time |-> w[1], end_time |-> w[2],
                snapshots |-> <<>>, during |-> {store}]
    /\ UNCHANGED <<store, resp>>

\* the calculator's next query reads the store as it is now
Query ==
    /\ Computing
    /\ Len(call.snapshots) < queries_to_make(call.calculator, call.snapshots,
                                              call.start_time, call.end_time)
    /\ call' = [call EXCEPT !.snapshots = Append(@, store)]
    /\ UNCHANGED <<store, resp>>

\* the calculator returns
Finish ==
    /\ Computing
    /\ Len(call.snapshots) = queries_to_make(call.calculator, call.snapshots,
                                              call.start_time, call.end_time)
    /\ call' = [call EXCEPT !.op = "calculator"]
    /\ resp' = CalculatorAt(call.calculator, call.snapshots, call.start_time, call.end_time)
    /\ UNCHANGED store

NextSnap ==
    \/ \E e \in SnapCatalogue : AppendEvent(e)
    \/ \E calculator \in SnapCalculators, w \in SnapWindows : Begin(calculator, w)
    \/ Query
    \/ Finish

SpecSnap == InitSnap /\ [][NextSnap]_vars

-----------------------------------------------------------------------------
(* interpret_correlation applied to coefficients and p-values *)

Decimal5(k) == RNorm(k, 100000)

InterpCoefficients ==
    {Decimal5(sign * k) :
        sign \in {-1, 1},
        k \in {0, 4, 5000, 9996, 9999, 10000, 10001, 29999, 30000, 49999, 50000,
               69999, 70000, 99999, 100000}}

InterpPValues ==
    {Decimal5(k) : k \in {0, 4, 999, 1000, 1001, 4999, 5000, 9999, 10000, 50000, 100000}}

InitInterp ==
    /\ store = {}
    /\ \E r \in InterpCoefficients, p_value \in InterpPValues :
         call = [op |-> "r_p", r |-> r, p_value |-> p_value]
    /\ resp = Idle

Interpret ==
    /\ call.op = "r_p"
    /\ call' = [call EXCEPT !.op = "interpret_correlation"]
    /\ resp' = interpret_correlation(call.r, call.p_value)
    /\ UNCHANGED store

\* round(x, 4): the nearest multiple of 0.0001, a tie going to the even one
round4(x) ==
    LET magnitude == IF x[1] < 0 THEN -x[1] ELSE x[1]
        whole == (magnitude * 10000) \div x[2]
        rest == (magnitude * 10000) % x[2]
        nearest == IF 2 * rest > x[2] \/ (2 * rest = x[2] /\ whole % 2 = 1)
                   THEN whole + 1 ELSE whole
    IN  RNorm(IF x[1] < 0 THEN -nearest ELSE nearest, 10000)

\* the entry calculate_correlations appends for a computed coefficient
correlation_entry(r, p_value) ==
    [pearson_coefficient |-> round4(r),
     p_value |-> round4(p_value),
     interpretation |-> interpret_correlation(r, p_value)]

\* calculate_correlations reports a pair whose pearsonr result is (r, p_value)
Report ==
    /\ call.op = "r_p"
    /\ call' = [call EXCEPT !.op = "report"]
    /\ resp' = correlation_entry(call.r, call.p_value)
    /\ UNCHANGED store

NextInterp == Interpret \/ Report

SpecInterp == InitInterp /\ [][NextInterp]_vars

-----------------------------------------------------------------------------
(* Claims *)

AcceptedMetricCall == call.op = "calculate_metric" /\ call.metric \in MetricType

\* C1 (as claimed): every accepted metric identifier dispatches to exactly one
\* calculator and calculate_metric returns a result; the keys of the dispatch
\* table are exactly the members of MetricType.
C1_DispatchTotal ==
    AcceptedMetricCall =>
        /\ resp.status = "ok"
        /\ Len(resp.ran) = 1
        /\ DOMAIN calculators = MetricType

\* C2: calculate_metric with an identifier outside MetricType fails with the
\* invalid-metric ValueError, runs no calculator and issues no query.
C2_UnknownMetricRejected ==
    (call.op = "calculate_metric" /\ call.metric \notin MetricType) =>
        /\ resp.status = "ValueError"
        /\ resp.ran = <<>>
        /\ resp.queries = 0

C2_Witness ==
    /\ call.op = "calculate_metric"
    /\ call.metric = "LINES_OF_CODE_AI"
    /\ store # {}
    /\ resp.status = "ValueError"

\* C3 (as claimed): calculate_metric returns the normalizer's z-score negated
\* once for the lower-is-better metrics and unchanged for every other metric.
C3_PolarityAdjusted ==
    AcceptedMetricCall =>
        /\ resp.status = "ok"
        /\ call.metric \in DOMAIN calculators
        /\ LET z == Calculator(calculators[call.metric], store,
                               call.start_time, call.end_time).result.z_score
           IN  resp.result.z_score =
                   IF call.metric \in InvertedMetrics THEN SRNeg(z) ELSE z

AllZero(result) ==
    /\ result.mean_value = RZero
    /\ result.z_score = SRZero
    /\ result.z_score_mean = RZero
    /\ result.z_score_std = SRZero

\* C4: every result a calculator returns, and every result calculate_metric
\* returns, has all-zero numeric fields when it has no observations; a
\* calculator whose timeframe sample is empty returns such a result.
C4_EmptyTimeframeAllZero ==
    /\ call.op = "calculator" =>
          /\ resp.result.amount_of_observations = Len(resp.timeframe)
          /\ resp.result.amount_of_observations = 0 => AllZero(resp.result)
    /\ (call.op = "calculate_metric" /\ resp.status = "ok") =>
          (resp.result.amount_of_observations = 0 => AllZero(resp.result))

C4_Witness ==
    /\ call.op = "calculator"
    /\ Len(resp.timeframe) = 0
    /\ Len(resp.population) >= 2
    /\ resp.result.amount_of_observations = 0
    /\ series_mean(resp.population) # RZero

AllEqual(s) == \A i, j \in 1..Len(s) : s[i] = s[j]

RECURSIVE SumOfSquares(_)
SumOfSquares(s) ==
    IF s = <<>> THEN RZero ELSE RAdd(RMul(Head(s), Head(s)), SumOfSquares(Tail(s)))

\* (sum x^2 - (sum x)^2 / n) / (n - 1)
SampleVariance(s) ==
    RDiv(RSub(SumOfSquares(s), RDiv(RMul(SeqSum(s), SeqSum(s)), R(Len(s)))),
         R(Len(s) - 1))

PartitionDone ==
    /\ call.op \in {"get_metrics", "calculate_cps_with_intervals"}
    /\ "accepted" \in DOMAIN resp
    /\ resp.accepted

\* C6: for every accepted request each partitioner returns exactly `intervals`
\* sub-windows numbered 1..intervals in order; the first starts at the
\* requested start second, the last ends at the requested end second, and each
\* next start is exactly one second after the previous end.
C6_PartitionContiguous ==
    PartitionDone =>
        LET w == resp.windows
            n == call.intervals
        IN  /\ DOMAIN w = 1..n
            /\ \A i \in 1..n : w[i].interval_number = i
            /\ w[1].start_time = call.start_time.sec
            /\ w[n].end_time = call.end_time.sec
            /\ \A i \in 1..(n - 1) : w[i + 1].start_time = w[i].end_time + 1

C6_Witness ==
    /\ PartitionDone
    /\ call.op = "get_metrics"
    /\ call.intervals = 3
    /\ call.start_time.us = 500000
    /\ call.end_time.sec = 259201
    /\ resp.windows[2].start_time = resp.windows[1].end_time + 1
    /\ resp.windows[3].end_time = 259201

\* the seconds at and around every sub-window boundary
SeamSeconds(w) ==
    UNION {{w[i].start_time - 1, w[i].start_time, w[i].start_time + 1,
            w[i].end_time - 1, w[i].end_time, w[i].end_time + 1} : i \in DOMAIN w}

ProbeEvent(t) == Event(1, "SATISFACTION", t, 1, NULL, NULL, NULL)

Selects(window, t) ==
    _get_observations_df({ProbeEvent(t)}, "SATISFACTION",
                         window.start_time, window.end_time) # {}

\* C7: for every accepted partition, an event at a whole second t with
\* start <= t <= end is selected by the inclusive range filter of exactly one
\* sub-window.
C7_EachEventInOneWindow ==
    PartitionDone =>
        LET w == resp.windows
            start_dt == validate_and_normalize_timestamp(call.start_time)[2]
            end_dt == validate_and_normalize_timestamp(call.end_time)[2]
        IN  \A t \in SeamSeconds(w) :
                (~TLess(<<t, 0>>, start_dt) /\ ~TLess(end_dt, <<t, 0>>)) =>
                    Cardinality({i \in DOMAIN w : Selects(w[i], t)}) = 1

C7_Witness ==
    /\ PartitionDone
    /\ call.op = "calculate_cps_with_intervals"
    /\ call.intervals = 2
    /\ call.start_time.sec = 1
    /\ call.end_time.sec = 172800
    /\ Selects(resp.windows[1], resp.windows[1].end_time)
    /\ ~Selects(resp.windows[2], resp.windows[1].end_time)
    /\ Selects(resp.windows[2], resp.windows[1].end_time + 1)

RequestTimesParse == timestamp_parses(call.start_time) /\ timestamp_parses(call.end_time)

\* a request that passes every check placed before the interval-count check
ReachesIntervalCheck ==
    /\ call.op \in {"get_metrics", "cps"}
    /\ RequestTimesParse
    /\ call.intervals > 0
    /\ call.op = "get_metrics" => \A m \in 1..Len(call.metrics) : call.metrics[m] \in MetricType
    /\ call.op = "cps" => request_errors(call) = {}
    /\ call.start_time.sec <= call.end_time.sec

\* calendar days of [start, end], counting the day of start and the day of end
CalendarDaysSpanned ==
    (call.end_time.sec \div 86400) - (call.start_time.sec \div 86400) + 1

TooManyIntervals == <<"Intervals cannot be larger than the number of days", 0>>

\* C8 (as claimed): a request is rejected with TooManyIntervals exactly when
\* intervals exceeds the number of calendar days spanned by [start, end],
\* counting both endpoint days.
C8_TooManyIntervalsByCalendarDays ==
    ReachesIntervalCheck =>
        ((TooManyIntervals \in resp.diagnostics) <=> (call.intervals > CalendarDaysSpanned))

CpsRequestValid ==
    /\ call.op = "cps"
    /\ ReachesIntervalCheck
    /\ call.intervals <= total_days(<<call.start_time.sec, call.start_time.us>>,
                                    <<call.end_time.sec, call.end_time.us>>)
    /\ \A m \in 1..Len(call.metrics) : call.metrics[m].metric \in MetricType

\* C9 (as claimed): every interval of a valid composite request reports
\* cps = sum over the requested metrics of weight * z_score, with z_score the
\* value calculate_metric returns for that interval.
C9_CpsIsWeightedSum ==
    CpsRequestValid =>
        /\ resp.status = 200
        /\ Len(resp.intervals) = call.intervals
        /\ \A i \in 1..Len(resp.intervals) :
              resp.intervals[i].cps =
                  float_sum([m \in 1..Len(call.metrics) |->
                      RMulSR(call.metrics[m].weight,
                             calculate_metric(store, call.metrics[m].metric,
                                              resp.intervals[i].start_time,
                                              resp.intervals[i].end_time).result.z_score)])

WeightDiagnostics ==
    {<<kind, m>> : kind \in {"weight: greater_than_equal", "weight: less_than_equal"},
                  m \in 1..Len(call.metrics)}

OutsideUnitInterval(weight) == weight[1] < 0 \/ weight[1] > weight[2]

\* C10: a composite request with any weight outside [0,1] is answered 422
\* with a weight diagnostic, no interval results, no calculate_metric call and
\* no query; a request whose weights all lie in [0,1], 0 and 1 included, gets
\* no weight diagnostic.
C10_InvalidWeightRejected ==
    call.op = "cps" =>
        IF \E m \in 1..Len(call.metrics) : OutsideUnitInterval(call.metrics[m].weight)
        THEN /\ resp.status = 422
             /\ resp.diagnostics \cap WeightDiagnostics # {}
             /\ resp.intervals = <<>>
             /\ resp.calls = 0
             /\ resp.queries = 0
        ELSE resp.diagnostics \cap WeightDiagnostics = {}

C10_Witness ==
    /\ call.op = "cps"
    /\ store # {}
    /\ Len(call.metrics) = 2
    /\ call.metrics[1].weight = R(1)
    /\ call.metrics[2].weight = <<3, 2>>
    /\ call.intervals = 1
    /\ RequestTimesParse
    /\ resp.status = 422
    /\ resp.diagnostics = {<<"weight: less_than_equal", 2>>}

RequestStart == <<call.start_time.sec, call.start_time.us>>

RequestEnd == <<call.end_time.sec, call.end_time.us>>

EndBeforeStart == <<"end_time cannot be before start_time", 0>>

\* C11: a get_metrics or composite request whose end is before its start is
\* answered with a client error, without interval results and without any
\* call of calculate_metric or query; the composite handler names
\* end-before-start once the body is valid, get_metrics names the interval
\* count once the metric identifiers are valid.
C11_EndBeforeStartRejected ==
    (call.op \in {"get_metrics", "cps"} /\ RequestTimesParse /\ TLess(RequestEnd, RequestStart)) =>
        /\ resp.status \in {400, 422}
        /\ resp.calls = 0
        /\ resp.queries = 0
        /\ resp.intervals = <<>>
        /\ (call.op = "cps" /\ resp.status = 400) => resp.diagnostics = {EndBeforeStart}
        /\ (call.op = "cps" /\ call.intervals > 0 /\ Len(call.metrics) > 0
               /\ \A m \in 1..Len(call.metrics) :
                     ~OutsideUnitInterval(call.metrics[m].weight))
              => resp.status = 400
        /\ (call.op = "get_metrics" /\ call.intervals > 0
               /\ \A m \in 1..Len(call.metrics) : call.metrics[m] \in MetricType)
              => resp.diagnostics = {TooManyIntervals}

C11_Witness ==
    /\ call.op = "get_metrics"
    /\ call.start_time = TimestampText("T", 0, 500000)
    /\ call.end_time = TimestampText("T", 0, 0)
    /\ call.intervals = 1
    /\ call.metrics = <<"SATISFACTION">>
    /\ store # {}
    /\ resp.status = 400
    /\ resp.diagnostics = {TooManyIntervals}

RequestedMetric(m) ==
    IF call.op = "cps" THEN call.metrics[m].metric ELSE call.metrics[m]

\* the body constraints of a composite request that are violated
BodyViolations ==
    IF call.op # "cps" THEN 0
    ELSE (IF call.intervals > 0 THEN 0 ELSE 1)
         + (IF Len(call.metrics) > 0 THEN 0 ELSE 1)
         + Cardinality({m \in 1..Len(call.metrics) :
                           OutsideUnitInterval(call.metrics[m].weight)})

\* the request violates one of the validations of its handler
FailsValidation ==
    /\ call.op \in {"get_metrics", "cps"}
    /\ \/ call.intervals <= 0
       \/ BodyViolations > 0
       \/ \E m \in 1..Len(call.metrics) : RequestedMetric(m) \notin MetricType
       \/ ~RequestTimesParse
       \/ RequestTimesParse /\ call.op = "cps" /\ TLess(RequestEnd, RequestStart)
       \/ RequestTimesParse /\ call.intervals > total_days(RequestStart, RequestEnd)

RejectedWhole ==
    /\ resp.status \in {400, 422}
    /\ resp.queries = 0
    /\ resp.calls = 0
    /\ resp.intervals = <<>>

\* C12 (as claimed): a request that fails validation is rejected before any
\* computation, without partial results, with exactly one diagnostic.
C12_ExactlyOneDiagnostic ==
    FailsValidation => (RejectedWhole /\ Cardinality(resp.diagnostics) = 1)

\* C12 (amended): a request that fails validation is rejected before any
\* call of calculate_metric and any query, without interval results; a
\* rejection by a handler check (400) and a rejection of get_metrics carry
\* exactly one diagnostic, a rejection of a composite body (422) carries one
\* diagnostic per violated body constraint.
C12_ValidationBeforeComputation ==
    FailsValidation =>
        /\ RejectedWhole
        /\ IF BodyViolations > 0
           THEN resp.status = 422 /\ Cardinality(resp.diagnostics) = BodyViolations
           ELSE Cardinality(resp.diagnostics) = 1

C12_Witness ==
    /\ call.op = "cps"
    /\ call.intervals = 0
    /\ Len(call.metrics) = 2
    /\ call.metrics[2].weight = <<3, 2>>
    /\ store # {}
    /\ resp.status = 422
    /\ resp.diagnostics = {<<"intervals: greater_than", 0>>, <<"weight: less_than_equal", 2>>}

\* a get_metrics request that passes every validation of the handler
MetricsRequestValid == call.op = "get_metrics" /\ ~FailsValidation

\* C13 (as claimed): get_metrics answers a valid request with correlations
\* absent when intervals = 1 or fewer than 2 metrics are requested, and with
\* a list of correlations otherwise; never with an error.
C13_CorrelationsWhenApplicable ==
    MetricsRequestValid =>
        /\ resp.status = 200
        /\ (resp.correlations = NULL) <=> (call.intervals = 1 \/ Len(call.metrics) < 2)

Correlated == call.op = "calculate_correlations"

Reversed(s) == [i \in 1..Len(s) |-> s[Len(s) + 1 - i]]

\* the results that calculate_correlations gives for the two metrics a and b
ResultsFor(results, a, b) ==
    {k \in 1..Len(results) : {results[k].metric_1, results[k].metric_2} = {a, b}}

\* the pairs of positions of the list that hold the two metrics a and b
PositionsOf(metric_type_list, a, b) ==
    {pair \in (1..Len(metric_type_list)) \X (1..Len(metric_type_list)) :
        /\ pair[1] < pair[2]
        /\ {metric_type_list[pair[1]], metric_type_list[pair[2]]} = {a, b}}

SameCorrelation(x, y) ==
    /\ x.pearson_coefficient = y.pearson_coefficient
    /\ x.p_value = y.p_value
    /\ x.sample_size = y.sample_size

SwappedAgree(results, swapped) ==
    \A k \in 1..Len(results) :
        \E l \in 1..Len(swapped) :
            /\ swapped[l].metric_1 = results[k].metric_2
            /\ swapped[l].metric_2 = results[k].metric_1
            /\ SameCorrelation(results[k], swapped[l])

\* C14: calculate_correlations gives n*(n-1)/2 results for a list of n metrics,
\* one for each pair of requested metrics, and the pearson coefficient, p-value
\* and sample size of a pair are the same when the metrics are requested in
\* the opposite order.
C14_OnePerPairOrderFree ==
    Correlated =>
        LET metric_type_list == call.metric_type_list
            n == Len(metric_type_list)
        IN  /\ 2 * Len(resp) = n * (n - 1)
            /\ \A i, j \in 1..n :
                  i < j =>
                      Cardinality(ResultsFor(resp, metric_type_list[i], metric_type_list[j]))
                          = Cardinality(PositionsOf(metric_type_list, metric_type_list[i],
                                                    metric_type_list[j]))
            /\ SwappedAgree(resp, calculate_correlations(call.interval_results,
                                                         Reversed(metric_type_list)))

\* three metrics over three intervals, one pair of them with a computed,
\* non-zero coefficient
C14_Witness ==
    /\ Correlated
    /\ Len(call.metric_type_list) = 3
    /\ Len(resp) = 3
    /\ \E k \in 1..Len(resp) :
          /\ resp[k].sample_size = 3
          /\ resp[k].pearson_coefficient # SRZero
          /\ resp[k].pearson_coefficient.round4.sgn = -1

\* the mean value that interval i of the call reports for a metric
MeanValue(i, metric_type) ==
    LET metrics == call.interval_results[i].metrics
    IN  metrics[CHOOSE m \in 1..Len(metrics) : metrics[m].metric_type = metric_type].mean_value

\* the intervals of the call in which both metrics report a number
ValidIntervals(a, b) ==
    {i \in 1..Len(call.interval_results) :
        ~IsNaN(MeanValue(i, a)) /\ ~IsNaN(MeanValue(i, b))}

RECURSIVE MeanValueSum(_, _)
MeanValueSum(metric_type, intervals) ==
    IF intervals = {} THEN RZero
    ELSE LET i == CHOOSE x \in intervals : TRUE
         IN  RAdd(MeanValue(i, metric_type), MeanValueSum(metric_type, intervals \ {i}))

\* the variance of a metric's mean values over a set of intervals is zero:
\* every value equals the mean
ZeroVariance(metric_type, intervals) ==
    \A i \in intervals :
        RMul(R(Cardinality(intervals)), MeanValue(i, metric_type))
            = MeanValueSum(metric_type, intervals)

InsufficientData == "Insufficient data (need at least 3 intervals with observations)"

ZeroVarianceText == "Cannot compute correlation: one or both metrics have zero variance"

Degenerate(result, text) ==
    /\ result.pearson_coefficient = SRZero
    /\ result.p_value = R(1)
    /\ result.interpretation = text

C17_SnapshotConsistent ==
    call.op = "calculator" =>
        \E db \in call.during :
            resp.result = Calculator(call.calculator, db, call.start_time, call.end_time).result

\* the breakdown of one interval has one entry per requested (metric, weight)
\* pair, in request order, each weighted by its weight
BreakdownOf(interval, metrics) ==
    /\ Len(interval.metrics) = Len(metrics)
    /\ \A m \in 1..Len(metrics) :
          /\ interval.metrics[m].metric_type = metrics[m].metric
          /\ interval.metrics[m].weight = metrics[m].weight
          /\ interval.metrics[m].z_score_weighted
                 = RMulSR(metrics[m].weight, interval.metrics[m].z_score)

\* C18 (as claimed): the answer to a valid composite request has, in every
\* interval, exactly one breakdown entry per requested (metric, weight) pair
\* in request order, pairs of weight 0 included, each with z_score_weighted =
\* weight * z_score, and a cps that is the sum of the entries' z_score_weighted.
C18_BreakdownPerRequestedPair ==
    CpsRequestValid =>
        /\ resp.status = 200
        /\ resp.intervals # <<>>
        /\ \A i \in 1..Len(resp.intervals) :
              /\ BreakdownOf(resp.intervals[i], call.metrics)
              /\ resp.intervals[i].cps =
                     float_sum([m \in 1..Len(call.metrics) |->
                                  resp.intervals[i].metrics[m].z_score_weighted])

\* the number of observations that interval i of the call reports for a metric
Observations(i, metric_type) ==
    LET metrics == call.interval_results[i].metrics
    IN  metrics[CHOOSE m \in 1..Len(metrics) :
                    metrics[m].metric_type = metric_type].amount_of_observations

\* the intervals of the call in which both metrics have observations and a
\* defined mean value
ObservedIntervals(a, b) ==
    {i \in ValidIntervals(a, b) : Observations(i, a) > 0 /\ Observations(i, b) > 0}

\* C19 (as claimed): the sample size of a pair counts only the intervals in
\* which both metrics have observations, and a pair with fewer than 3 such
\* intervals is reported as insufficient data.
C19_UnobservedIntervalsDropped ==
    Correlated =>
        \A k \in 1..Len(resp) :
            LET observed == ObservedIntervals(resp[k].metric_1, resp[k].metric_2)
            IN  /\ resp[k].sample_size = Cardinality(observed)
                /\ Cardinality(observed) < 3 => Degenerate(resp[k], InsufficientData)

Interpreted == call.op = "interpret_correlation"

\* the number of the bounds that x has reached
BoundsReached(x, lower_bounds) ==
    Cardinality({b \in lower_bounds : ~RLess(x, b)})

StrengthBands == <<"Negligible", "Weak", "Moderate", "Strong", "Very strong">>

SignificanceBands ==
    <<"highly significant (p < 0.01)", "significant (p < 0.05)",
      "marginally significant (p < 0.1)", "not statistically significant">>

Magnitude(r) == IF r[1] < 0 THEN <<-r[1], r[2]>> ELSE r

DirectionOf(r) == IF r[1] > 0 THEN "positive" ELSE IF r[1] < 0 THEN "negative" ELSE "no"

\* C20: interpret_correlation names exactly one strength band, chosen by |r|
\* with the lower bounds 0.1, 0.3, 0.5 and 0.7 belonging to the higher band,
\* one direction by the sign of r, and one significance band, chosen by p
\* with the bounds 0.01, 0.05 and 0.1 belonging to the less significant band.
C20_OneBandEach ==
    Interpreted =>
        resp = StrengthBands[1 + BoundsReached(Magnitude(call.r),
                                               {<<1, 10>>, <<3, 10>>, <<1, 2>>, <<7, 10>>})]
               \o " " \o DirectionOf(call.r) \o " correlation, "
               \o SignificanceBands[1 + BoundsReached(call.p_value,
                                                      {<<1, 100>>, <<1, 20>>, <<1, 10>>})]

\* r = -0.7 and p = 0.05, both on a bound
C20_Witness ==
    /\ Interpreted
    /\ call.r = <<-7, 10>>
    /\ call.p_value = <<1, 20>>
    /\ resp = "Very strong negative correlation, marginally significant (p < 0.1)"

CalculatorCalled(names) == call.op = "calculator" /\ call.calculator \in names

DailyCountCalculators == {"calculate_deployment_frequency", "calculate_number_of_commits"}

DailySumCalculators == {"calculate_lines_of_code", "calculate_lines_of_code_ai"}

\* the category of events a daily-bucketed calculator reads
DailyCategory ==
    CASE call.calculator = "calculate_deployment_frequency" -> "DEPLOYMENT"
      [] call.calculator = "calculate_number_of_commits" -> "COMMIT"
      [] call.calculator = "calculate_lines_of_code" -> "LINES_OF_CODE"
      [] call.calculator = "calculate_lines_of_code_ai" -> "LINES_OF_CODE_AI"

\* the stored events of the category with a timestamp in [start, end]
Matching ==
    {e \in store : /\ e.type = DailyCategory
                   /\ call.start_time <= e.timestamp
                   /\ e.timestamp <= call.end_time}

\* the events of S on calendar day d
OnDay(S, d) == {e \in S : d * DaySeconds <= e.timestamp /\ e.timestamp < (d + 1) * DaySeconds}

\* the calendar day on which some event of S lies, before (after) which none does
FirstDay(S) == CHOOSE d \in 0..10 : OnDay(S, d) # {} /\ \A c \in 0..(d - 1) : OnDay(S, c) = {}

LastDay(S) == CHOOSE d \in 0..10 : OnDay(S, d) # {} /\ \A c \in (d + 1)..10 : OnDay(S, c) = {}

RECURSIVE ValueTotal(_)
ValueTotal(S) ==
    IF S = {} THEN 0
    ELSE LET e == CHOOSE x \in S : TRUE IN e.value + ValueTotal(S \ {e})

\* what a daily-bucketed calculator reports for one day
DayEntry(S) ==
    IF call.calculator \in DailyCountCalculators THEN R(Cardinality(S)) ELSE R(ValueTotal(S))

\* C21: a daily-bucketed calculator returns an empty timeframe sample and no
\* min/max timestamp when no matching event lies in [start, end]; otherwise
\* one entry per calendar day from the day of the first matching event to the
\* day of the last, 0 for a day without events, and min_timestamp and
\* max_timestamp are the first and last matching timestamps, inside [start, end].
C21_OneEntryPerDay ==
    CalculatorCalled(DailyCountCalculators \cup DailySumCalculators) =>
        IF Matching = {}
        THEN /\ resp.timeframe = <<>>
             /\ resp.result.min_timestamp = NULL
             /\ resp.result.max_timestamp = NULL
        ELSE /\ Len(resp.timeframe) = LastDay(Matching) - FirstDay(Matching) + 1
             /\ \A i \in 1..Len(resp.timeframe) :
                   resp.timeframe[i] = DayEntry(OnDay(Matching, FirstDay(Matching) + i - 1))
             /\ \E e \in Matching : resp.result.min_timestamp = e.timestamp
             /\ \E e \in Matching : resp.result.max_timestamp = e.timestamp
             /\ \A e \in Matching : /\ resp.result.min_timestamp <= e.timestamp
                                     /\ e.timestamp <= resp.result.max_timestamp
             /\ call.start_time <= resp.result.min_timestamp
             /\ resp.result.min_timestamp <= resp.result.max_timestamp
             /\ resp.result.max_timestamp <= call.end_time

\* commits on the first and the third day of the window, none on the second
C21_Witness ==
    /\ CalculatorCalled({"calculate_number_of_commits"})
    /\ resp.timeframe = <<R(1), R(0), R(1)>>
    /\ resp.result.min_timestamp = 36000
    /\ resp.result.max_timestamp = 216000

\* the number of entries of a sample equal to v
Occurrences(sample, v) == Cardinality({i \in 1..Len(sample) : sample[i] = v})

InWindow(S) == {e \in S : call.start_time <= e.timestamp /\ e.timestamp <= call.end_time}

Stored(type) == {e \in store : e.type = type}

\* the deployments of S that some stored failure references
Failed(S) == {d \in S : \E f \in Stored("DEPLOYMENT_FAILURE") : f.deployment_id = d.id}

\* a sample of indicators with one entry per element of S, 1.0 for those in Hit
IndicatorsOf(sample, S, Hit) ==
    /\ Len(sample) = Cardinality(S)
    /\ Occurrences(sample, R(1)) = Cardinality(Hit)
    /\ Occurrences(sample, R(0)) = Cardinality(S \ Hit)

\* C22: the timeframe sample of change-failure rate has one entry per
\* deployment with timestamp in [start, end], 1.0 if at least one stored
\* failure references the deployment (wherever the failure lies in time and
\* however many there are) and 0.0 otherwise; the population sample is built
\* the same way from all deployments, and for a non-empty timeframe sample
\* mean_value and the population mean are the shares of failed deployments.
C22_OneIndicatorPerDeployment ==
    CalculatorCalled({"calculate_change_failure_rate"}) =>
        LET deployments_tf == InWindow(Stored("DEPLOYMENT"))
            deployments_pop == Stored("DEPLOYMENT")
        IN  /\ IndicatorsOf(resp.timeframe, deployments_tf, Failed(deployments_tf))
            /\ IndicatorsOf(resp.population, deployments_pop, Failed(deployments_pop))
            /\ deployments_tf # {} =>
                   resp.result.mean_value
                       = RNorm(Cardinality(Failed(deployments_tf)), Cardinality(deployments_tf))
            /\ deployments_tf # {} =>
                   resp.result.z_score_mean
                       = RNorm(Cardinality(Failed(deployments_pop)),
                               Cardinality(deployments_pop))

\* one deployment in the window with two failures, one of them after the window
C22_Witness ==
    /\ CalculatorCalled({"calculate_change_failure_rate"})
    /\ Cardinality({f \in Stored("DEPLOYMENT_FAILURE") : f.deployment_id = 5}) = 2
    /\ InWindow(Stored("DEPLOYMENT_FAILURE")) # Stored("DEPLOYMENT_FAILURE")
    /\ resp.timeframe = <<R(1)>>

\* the earlier events a later event is paired with: the failures a fix names,
\* the commit itself for a commit that names a deployment
LinkedFailures(fix) ==
    {f \in Stored("DEPLOYMENT_FAILURE") :
        /\ fix.deployment_failure_id # NULL
        /\ (f.id = fix.deployment_failure_id
            \/ f.deployment_failure_id = fix.deployment_failure_id)}

LinkedDeployments(commit) ==
    {d \in Stored("DEPLOYMENT") : commit.deployment_id # NULL /\ d.id = commit.deployment_id}

\* the fixes in the window that have a linked failure
PairedFixes == {x \in InWindow(Stored("DEPLOYMENT_FAILURE_FIX")) : LinkedFailures(x) # {}}

\* the commits linked to a deployment in the window
PairedCommits == {c \in Stored("COMMIT") : InWindow(LinkedDeployments(c)) # {}}

\* minutes from the earlier to the later timestamp, as a fraction of 60 seconds
MinutesBetween(earlier, later) == RNorm(later.timestamp - earlier.timestamp, 60)

\* C23: the later event anchors a paired duration in the timeframe: the
\* sample of mean-time-to-recover has one entry, fix time minus failure time
\* in minutes, for each fix in [start, end] with a linked failure, and the
\* sample of lead-time-for-changes one entry, deployment time minus commit
\* time, for each commit linked to a deployment in [start, end], wherever the
\* earlier event lies; a pair whose later event is outside the window and an
\* unpaired event contribute nothing.
C23_LaterEventAnchors ==
    /\ CalculatorCalled({"calculate_mean_time_to_recover"}) =>
          /\ Len(resp.timeframe) = Cardinality(PairedFixes)
          /\ \A i \in 1..Len(resp.timeframe) :
                Occurrences(resp.timeframe, resp.timeframe[i])
                    = Cardinality({x \in PairedFixes :
                          \E f \in LinkedFailures(x) :
                              MinutesBetween(f, x) = resp.timeframe[i]})
    /\ CalculatorCalled({"calculate_lead_time_for_changes"}) =>
          /\ Len(resp.timeframe) = Cardinality(PairedCommits)
          /\ \A i \in 1..Len(resp.timeframe) :
                Occurrences(resp.timeframe, resp.timeframe[i])
                    = Cardinality({c \in PairedCommits :
                          \E d \in LinkedDeployments(c) :
                              MinutesBetween(c, d) = resp.timeframe[i]})

\* a fix in the window whose failure lies before the window: 120 minutes
C23_Witness ==
    /\ CalculatorCalled({"calculate_mean_time_to_recover"})
    /\ InWindow(Stored("DEPLOYMENT_FAILURE")) = {}
    /\ PairedFixes # {}
    /\ resp.timeframe = <<R(120)>>

\* the (lines-of-code, AI-lines-of-code) events of the window with one timestamp
SameTimestampPairs ==
    {pair \in InWindow(Stored("LINES_OF_CODE")) \X InWindow(Stored("LINES_OF_CODE_AI")) :
        pair[1].timestamp = pair[2].timestamp}

\* C24 (as claimed): calculate_metric computes AI_CODE_VOLUME from the
\* lines-of-code and AI-lines-of-code events that share a timestamp: the call
\* returns a result whose sample has one entry per matched pair, and events
\* without a same-timestamp partner add no entry.
C24_AiCodeVolumeJoined ==
    (call.op = "calculate_metric" /\ call.metric = "AI_CODE_VOLUME") =>
        /\ resp.status = "ok"
        /\ "AI_CODE_VOLUME" \in DOMAIN calculators
        /\ Len(resp.ran) = 1
        /\ resp.result.amount_of_observations = Cardinality(SameTimestampPairs)

Reported == call.op = "report"

\* the interpretation text that belongs to a coefficient and a p-value
TextFor(r, p_value) ==
    StrengthBands[1 + BoundsReached(Magnitude(r), {<<1, 10>>, <<3, 10>>, <<1, 2>>, <<7, 10>>})]
    \o " " \o DirectionOf(r) \o " correlation, "
    \o SignificanceBands[1 + BoundsReached(p_value, {<<1, 100>>, <<1, 20>>, <<1, 10>>})]

\* C25 (as claimed): in a reported correlation the interpretation names the
\* strength band and the direction of the reported, 4-decimal rounded
\* pearson_coefficient and the significance band of the reported p_value.
C25_ReportSelfConsistent ==
    Reported => resp.interpretation = TextFor(resp.pearson_coefficient, resp.p_value)

C27_PartitionersAgree ==
    (/\ PartitionDone
     /\ call.op = "get_metrics"
     /\ cps_accepts(call.start_time, call.end_time, call.intervals)) =>
        resp.windows = cps_intervals(validate_and_normalize_timestamp(call.start_time)[1],
                                     validate_and_normalize_timestamp(call.end_time)[1],
                                     call.intervals)

DirectValueCalculators ==
    {"calculate_satisfaction", "calculate_retention", "calculate_communication_frequency",
     "calculate_perceived_productivity", "calculate_lack_of_interruptions",
     "calculate_ai_acceptance_rate"}

PairedIndicatorCalculators == {"calculate_change_failure_rate", "calculate_ai_rework_rate"}

PairedDurationCalculators ==
    {"calculate_mean_time_to_recover", "calculate_lead_time_for_changes"}

\* every value occurs in the population at least as often as in the timeframe
SubMultiset(timeframe, population) ==
    \A i \in 1..Len(timeframe) :
        Occurrences(timeframe, timeframe[i]) <= Occurrences(population, timeframe[i])

\* C28: for every direct-value, paired-indicator and paired-duration
\* calculator and every window, on the store as it is during the call, each
\* observation of the timeframe sample also occurs in the population sample
\* (as a sub-multiset), so a non-empty timeframe sample comes with a
\* non-empty population sample.
C28_TimeframeWithinPopulation ==
    CalculatorCalled(DirectValueCalculators \cup PairedIndicatorCalculators
                         \cup PairedDurationCalculators) =>
        /\ SubMultiset(resp.timeframe, resp.population)
        /\ Len(resp.timeframe) <= Len(resp.population)
        /\ Len(resp.timeframe) > 0 => Len(resp.population) > 0

\* two equal scores in the window, a third score before it
C28_Witness ==
    /\ CalculatorCalled({"calculate_satisfaction"})
    /\ resp.timeframe = <<R(3), R(3)>>
    /\ resp.population = <<R(1), R(3), R(3)>>

RECURSIVE SampleTotal(_)
SampleTotal(sample) ==
    IF sample = <<>> THEN RZero ELSE RAdd(Head(sample), SampleTotal(Tail(sample)))

\* C29: daily bucketing of deployments and commits loses and duplicates no
\* event: the timeframe sample sums to the number of matching events in
\* [start, end] (mean_value * amount_of_observations is that number), the
\* population sample sums to the number of all events of the category, and
\* amount_of_observations is the number of days bucketed.
C29_BucketingKeepsEvents ==
    CalculatorCalled(DailyCountCalculators) =>
        /\ SampleTotal(resp.timeframe) = R(Cardinality(Matching))
        /\ RMul(resp.result.mean_value, R(resp.result.amount_of_observations))
               = R(Cardinality(Matching))
        /\ SampleTotal(resp.population) = R(Cardinality(Stored(DailyCategory)))
        /\ resp.result.amount_of_observations
               = IF Matching = {} THEN 0 ELSE LastDay(Matching) - FirstDay(Matching) + 1

\* two commits of one day: one observation with the value 2
C29_Witness ==
    /\ CalculatorCalled({"calculate_number_of_commits"})
    /\ Cardinality(Matching) = 2
    /\ resp.timeframe = <<R(2)>>
    /\ resp.result.amount_of_observations = 1
    /\ resp.result.mean_value = R(2)

\* C30 (as claimed): every entry of the timeframe and population samples of
\* change-failure rate and AI-rework rate is 0.0 or 1.0 whatever events are
\* stored, so mean_value and the population mean lie in [0, 1].
C30_IndicatorsAreZeroOrOne ==
    CalculatorCalled(PairedIndicatorCalculators) =>
        /\ \A i \in 1..Len(resp.timeframe) : resp.timeframe[i] \in {R(0), R(1)}
        /\ \A i \in 1..Len(resp.population) : resp.population[i] \in {R(0), R(1)}
        /\ ~RLess(resp.result.mean_value, R(0)) /\ ~RLess(R(1), resp.result.mean_value)
        /\ ~RLess(resp.result.z_score_mean, R(0)) /\ ~RLess(R(1), resp.result.z_score_mean)


====
